---- MODULE Spec2Model ----
(***************************************************************************)
(* A model of the AI-driven futures trading kernel of this repository.     *)
(* Two implementations are modelled side by side:                          *)
(*   "v2"   src/ai_trader_v2.py           (bar-driven, on_bar)             *)
(*   "kimi" src/akoudai_kimi_combined.py  (tick-driven, on_tick)           *)
(*                                                                         *)
(* Units.  Prices are integers in units of 0.1 yuan; the venue's price     *)
(* tick is 0.5 yuan (TickSize = 5 units), so a mid price may fall between  *)
(* ticks.  Money is in yuan.  Fractions (position size, margin ratio,      *)
(* buffers, ratios) are integers in percent.  Time is in seconds.          *)
(***************************************************************************)
EXTENDS Integers, Sequences, FiniteSets, TLC

\* ------------------------------------------------------------------ bounds
MaxKeys == 2
MaxSeq == 2
MaxTime == 3
MaxOrders == 2

\* --------------------------------------------------- constants of the code
MAX_POSITION_PCT == 60
MIN_RR_X10 == 15
MAX_DAILY_LOSS_PCT == 5
REENTRY_COOLDOWN_SECS == 120
MIN_REENTRY_GAP_TICKS == 0
MIN_STOP_TICKS == 5
MIN_STOP_ATR_MULT_PCT == 25
NEW_TRADE_MARGIN_BUFFER == 112
MIN_GUARANTEE_RATIO == 115
MIN_AI_CONFIDENCE == 0
SPREAD_RATIO_LIMIT_PERMILLE == 3
THIN_SIZE_CAP == 30
INITIAL_CASH == 200000
BarSecs == 60
ALLOW_SAME_SIDE_PYRAMIDING == TRUE

\* constants of the kimi implementation (Config, TRADER_RULEBOOK)
Kimi_MAX_POSITION_PCT == 60
Kimi_MIN_RRR_X10 == 20
Kimi_MAX_SINGLE_TRADE_LOSS_PCT == 2
Kimi_MAX_DAILY_LOSS_PCT == 5
Kimi_MIN_AI_CONFIDENCE == 60
Kimi_SPREAD_RATIO_LIMIT_PERMILLE == 1
Kimi_INITIAL_CASH == 2000000
Kimi_NEW_TRADE_MARGIN_BUFFER == 105
Kimi_MIN_GUARANTEE_RATIO == 130
Kimi_MIN_STOP_TICKS == 10
Kimi_MIN_STOP_ATR_MULT_PCT == 40
Kimi_MIN_REENTRY_GAP_TICKS == 0
Kimi_REENTRY_COOLDOWN_SECS == 120
LOW_CHURN_MODE == TRUE
CT_MIN_CONF == 70
CT_MIN_RRR_X10 == 25
CT_MAX_PCT == 15
CT_COOLDOWN_MIN == 10
TREND_MIN_RRR_X10 == 20
SINGLE_SIDE_MODE == TRUE
ENABLE_TICK_TRIGGERED_AI == FALSE
\* context.daily_pnl: set to 0 by on_init and never written again
daily_pnl == 0

\* values the platform adapter returns for the traded contract
TickSize == 5
mult == 100
long_mr == 14
short_mr == 14
min_vol == 1

Symbols == {"au", "lc"}
Impls == {"v2", "kimi"}

Max(a, b) == IF a >= b THEN a ELSE b
Min(a, b) == IF a <= b THEN a ELSE b
Abs(a) == IF a >= 0 THEN a ELSE -a
\* Python's int(): truncation toward zero of the quotient n/d, d > 0
PyInt(n, d) == IF n >= 0 THEN n \div d ELSE -((-n) \div d)
\* math.floor(x / t) * t and math.ceil(x / t) * t
FloorTo(x, t) == (x \div t) * t
CeilTo(x, t) == -(((-x) \div t) * t)

\* ------------------------------------------------------------- the key pools
\* _KeyPool.acquire (v2): the first index with no call in flight, else None (0)
KeyPool_pick(n, infl) ==
  IF \E i \in 1..n : infl[i] <= 0
  THEN CHOOSE i \in 1..n : infl[i] <= 0 /\ \A j \in 1..(i - 1) : infl[j] > 0
  ELSE 0

KeyPool_acquire(n, infl) ==
  LET i == KeyPool_pick(n, infl)
  IN  IF i = 0 THEN [idx |-> 0, inflight |-> infl]
      ELSE [idx |-> i, inflight |-> [infl EXCEPT ![i] = 1]]

\* _KeyPool.release / APIKeyPool.release
KeyPool_release(n, infl, i) ==
  IF i >= 1 /\ i <= n THEN [infl EXCEPT ![i] = Max(0, infl[i] - 1)] ELSE infl

\* APIKeyPool.acquire (kimi): round-robin among the idle keys from the pointer,
\* else the first key with the smallest counter; the pointer moves past the pick.
\* Keys are numbered 1..n here, the pointer p is 0-based as in the code.
APIKeyPool_pick(n, infl, p) ==
  IF \E i \in 0..(n - 1) : infl[((p + i) % n) + 1] = 0
  THEN LET i == CHOOSE i \in 0..(n - 1) :
                  /\ infl[((p + i) % n) + 1] = 0
                  /\ \A j \in 0..(i - 1) : infl[((p + j) % n) + 1] # 0
       IN  ((p + i) % n) + 1
  ELSE CHOOSE k \in 1..n :
         /\ \A j \in 1..n : infl[k] <= infl[j]
         /\ \A j \in 1..(k - 1) : infl[j] > infl[k]

APIKeyPool_acquire(n, infl, p) ==
  LET k == APIKeyPool_pick(n, infl, p)
  IN  [idx |-> k, inflight |-> [infl EXCEPT ![k] = infl[k] + 1], ptr |-> k % n]

\* ------------------------------------------------ decisions and market data
\* An oracle decision.  id is the sequence number of the job that produced it
\* (0: none).  size, conf are percents; *_kind tells a number from a missing
\* ("none") or non-numeric ("bad") JSON value.  rrr is risk_reward_ratio times
\* ten (0: absent), tradeability is tradeability_score in percent (kimi only).
NoDecision ==
  [id |-> 0, signal |-> "None", size_kind |-> "num", size |-> 0,
   stop_kind |-> "none", stop |-> 0, tgt_kind |-> "none", tgt |-> 0,
   conf_kind |-> "num", conf |-> 0, cd |-> 0, style |-> "best",
   rrr |-> 0, tradeability |-> 100,
   scale_out_levels_r |-> <<>>, scale_out_pcts |-> <<>>]

Decision(sig, sk, sz, stk, stp, tk, tg, ck, cf, cd, sty) ==
  [id |-> 0, signal |-> sig, size_kind |-> sk, size |-> sz,
   stop_kind |-> stk, stop |-> stp, tgt_kind |-> tk, tgt |-> tg,
   conf_kind |-> ck, conf |-> cf, cd |-> cd, style |-> sty,
   rrr |-> 0, tradeability |-> 100,
   scale_out_levels_r |-> <<>>, scale_out_pcts |-> <<>>]

\* _collect_market_data: the snapshot on_bar takes before anything else
MarketData(close, bid, ask, atr, liq, trend) ==
  [close |-> close, bid |-> bid, ask |-> ask, atr |-> atr,
   liquidity_state |-> liq, d_trend |-> trend,
   spread |-> ask - bid]

\* ADAPTIVE_PARAMS
adaptive_interval(trend) == IF trend = "SIDEWAYS" THEN 240 ELSE 180
adaptive_size(trend) == IF trend = "SIDEWAYS" THEN 30 ELSE 60

\* ----------------------------------------------------- per-symbol state (v2)
NoStop == [set |-> FALSE, stop_loss |-> 0]

InitSymState(stag) ==
  [local_pos |-> 0, avg_price |-> 0, realized_pnl |-> 0,
   ai_interval_secs |-> 180, last_ai_call_time |-> 0,
   cooldown_until |-> 0, reentry_until |-> 0,
   ai_in_flight |-> FALSE, stagger_offset |-> stag,
   pending_decision |-> NoDecision, pending_seq |-> 0,
   last_executed_seq |-> 0, ai_job_seq |-> 0,
   ai_decision |-> NoStop, current_plan_id |-> 0,
   last_entry_px |-> 0, last_exit_price |-> 0,
   enough_bars |-> FALSE]

\* estimate_account: equity, available funds and used margin, in yuan
estimate_account(st, price) ==
  LET pos == st.local_pos
      float_pnl == IF pos > 0 THEN (price - st.avg_price) * Abs(pos) * mult
                   ELSE IF pos < 0 THEN (st.avg_price - price) * Abs(pos) * mult
                   ELSE 0
      equity == INITIAL_CASH + st.realized_pnl + float_pnl
      mr == IF pos >= 0 THEN long_mr ELSE short_mr
      used == (Abs(pos) * price * mult * Max(1, mr)) \div 100
  IN  [equity |-> equity, available |-> Max(0, equity - used), margin |-> used]

\* --------------------------------------------------------- prices (v2)
\* _normalize_price: quantize to the tick's decimal places (0.1 yuan, one
\* unit), ROUND_HALF_UP.  The argument is in half units.
normalize_price(p2) == (p2 + 1) \div 2

\* _align_price: up to the tick for buy/cover, down otherwise
align_price(p, side) ==
  IF side \in {"buy", "cover"} THEN CeilTo(p, TickSize) ELSE FloorTo(p, TickSize)

\* execute_decision._choose_price, in half units
choose_price2(md, style, side) ==
  IF style = "mid" THEN md.bid + md.ask
  ELSE IF style = "market" THEN 2 * md.close
  ELSE IF side = "buy" THEN 2 * md.ask ELSE 2 * md.bid

order_price_of(md, style, side) ==
  align_price(normalize_price(choose_price2(md, style, side)), side)

\* signal normalisation: lower-case, strip, alias map
normalize_signal(s) ==
  IF s \in {"long", "BUY"} THEN "buy"
  ELSE IF s \in {"short", "SELL"} THEN "sell"
  ELSE IF s \in {"exit"} THEN "close"
  ELSE s

\* an executor without the size fallback: a size <= 0 reaches the gate as it is;
\* the amended C31 does not hold with it
size_fallback_off(d, md) == d

\* the size fallback of execute_decision: a buy/sell with size <= 0 gets the
\* adaptive default, clamped to the rulebook maximum
size_fallback(d, md) ==
  IF d.signal \in {"buy", "sell"} /\ d.size_kind = "num" /\ d.size <= 0
  THEN [d EXCEPT !.size = Min(adaptive_size(md.d_trend), MAX_POSITION_PCT)]
  ELSE d

\* is_ai_insane (v2)
is_ai_insane(d, price) ==
  \/ d.size_kind = "bad"
  \/ /\ d.signal \in {"buy", "sell"}
     /\ \/ d.size <= 0
        \/ d.size > MAX_POSITION_PCT
        \/ d.stop_kind # "num"
        \/ d.signal = "buy" /\ d.stop >= price
        \/ d.signal = "sell" /\ d.stop <= price
        \/ /\ d.tgt_kind = "num"
           /\ 10 * Abs(d.tgt - price) < MIN_RR_X10 * Abs(price - d.stop)

\* size_pct_eff: thin book or wide spread caps the size, then the rulebook
size_pct_eff(d, md) ==
  LET s1 == IF md.liquidity_state = "THIN" THEN Min(d.size, THIN_SIZE_CAP) ELSE d.size
      mid2 == md.bid + md.ask
      s2 == IF mid2 > 0 /\ md.spread > 0
               /\ 2 * 1000 * md.spread > SPREAD_RATIO_LIMIT_PERMILLE * mid2
            THEN Min(s1, THIN_SIZE_CAP) ELSE s1
  IN  Min(s2, MAX_POSITION_PCT)

\* ------------------------------------------------------ the executor (v2)
\* What a call of execute_decision leaves behind: the symbol's state, the
\* orders handed to the venue, the decision object (the code rewrites it in
\* place) and whether an exception left the call.
Ret(st, out, dec, raised) == [st |-> st, out |-> out, dec |-> dec, raised |-> raised]

Order(type, px, vol) == [type |-> type, px |-> px, vol |-> vol]

\* a budget count that rounds up instead of down; C8 does not hold with it
lots_target_rounded_up(equity, size_eff, price, mr) ==
  Max(min_vol, 1 + PyInt(equity * size_eff,
                          price * Max(1, mr) * NEW_TRADE_MARGIN_BUFFER * (mult \div 100)))

\* lots_target: the budget count, never below the minimum lot
lots_target_of(equity, size_eff, price, mr) ==
  Max(min_vol, PyInt(equity * size_eff,
                      price * Max(1, mr) * NEW_TRADE_MARGIN_BUFFER * (mult \div 100)))

\* a margin count that forgets the percent scale of the margin ratio and so
\* finds no funds for a lot; C9 does not hold with it
max_lots_unscaled(available, price, mr) ==
  PyInt(available, price * Max(1, mr) * NEW_TRADE_MARGIN_BUFFER * (mult \div 100))

\* max_lots_by_margin
max_lots_by_margin_of(available, price, mr) ==
  PyInt(available * 100, price * Max(1, mr) * NEW_TRADE_MARGIN_BUFFER * (mult \div 100))

\* the lot count of a buy/sell order, or -1 when the sizing rejects it
order_volume(cur_lots, lots_target, max_lots) ==
  LET vol0 == IF cur_lots > 0
              THEN Max(0, Min(max_lots, lots_target) - cur_lots)
              ELSE Min(max_lots, lots_target)
  IN  IF cur_lots > 0 /\ ~ALLOW_SAME_SIDE_PYRAMIDING THEN -1
      ELSE IF cur_lots > 0 /\ cur_lots >= lots_target THEN -1
      ELSE IF vol0 < min_vol
           THEN IF max_lots < min_vol THEN -1
                ELSE IF lots_target < min_vol THEN min_vol ELSE vol0
           ELSE vol0

\* margin per lot, in yuan
margin_per_lot_of(price, mr) == (price * mult * Max(1, mr)) \div 100

\* a guarantee check that compares against a ratio of 1 instead of
\* MIN_GUARANTEE_RATIO; C10 does not hold with it
guarantee_above_one(equity, available, vol, margin_per_lot) ==
  equity >= (equity - available) + vol * margin_per_lot

\* the guarantee-ratio check: equity / margin_post >= MIN_GUARANTEE_RATIO
guarantee_ok(equity, available, vol, margin_per_lot) ==
  LET margin_post == (equity - available) + vol * margin_per_lot
  IN  IF margin_post > 0 THEN equity * 100 >= MIN_GUARANTEE_RATIO * margin_post
      ELSE TRUE

\* min_gap = max(MIN_STOP_TICKS * tick, atr * MIN_STOP_ATR_MULT)
min_gap_of(atr) == Max(MIN_STOP_TICKS * TickSize, (atr * MIN_STOP_ATR_MULT_PCT) \div 100)

\* the stop guard of the buy and of the sell branch
guard_stop(side, order_price, ai_sl, atr) ==
  LET R_ai == IF side = "buy" THEN Max(0, order_price - ai_sl)
              ELSE Max(0, ai_sl - order_price)
      R_new == Max(R_ai, min_gap_of(atr))
  IN  IF side = "buy" THEN FloorTo(order_price - R_new, TickSize)
      ELSE CeilTo(order_price + R_new, TickSize)

\* the buy branch (side = "buy") and the sell branch (side = "sell")
open_or_add(st, d, md, t, side, place_ok) ==
  LET pos_now == st.local_pos
      order_price == order_price_of(md, d.style, side)
      mr == IF side = "buy" THEN long_mr ELSE short_mr
      acc == estimate_account(st, md.close)
      size_eff == size_pct_eff(d, md)
      lots_target == lots_target_of(acc.equity, size_eff, order_price, mr)
      max_lots == max_lots_by_margin_of(acc.available, order_price, mr)
      cur_lots == IF side = "buy" THEN (IF pos_now > 0 THEN pos_now ELSE 0)
                  ELSE (IF pos_now < 0 THEN -pos_now ELSE 0)
      vol == order_volume(cur_lots, lots_target, max_lots)
      mpl == margin_per_lot_of(order_price, mr)
      sl == guard_stop(side, order_price, d.stop, md.atr)
  IN  IF order_price * mult <= 0 THEN Ret(st, <<>>, d, FALSE)
      ELSE IF vol < 0 THEN Ret(st, <<>>, d, FALSE)
      ELSE IF ~guarantee_ok(acc.equity, acc.available, vol, mpl) THEN Ret(st, <<>>, d, FALSE)
      ELSE IF ~place_ok THEN Ret(st, <<>>, d, FALSE)
      ELSE Ret([st EXCEPT
                  !.avg_price = order_price,
                  !.local_pos = IF side = "buy" THEN @ + vol ELSE @ - vol,
                  !.current_plan_id = d.id,
                  !.last_entry_px = order_price,
                  !.ai_decision = [set |-> TRUE, stop_loss |-> sl],
                  !.cooldown_until = IF d.cd > 0 THEN t + d.cd * 60 ELSE @],
               <<Order(IF side = "buy" THEN "buy" ELSE "short", order_price, vol)>>,
               d, FALSE)

\* isinstance(reentry_until, (int, float)) and time.time() < reentry_until; the
\* window is 0 until the first exit sets it
in_reentry_cooldown(st, t) == st.reentry_until # 0 /\ t < st.reentry_until

\* an executor without the sanity gate and the checks behind it: every buy or
\* sell goes straight to sizing and order placement
execute_decision_ungated(st, d0, md, t, place_ok) ==
  LET d == size_fallback([d0 EXCEPT !.signal = normalize_signal(d0.signal)], md)
  IN  IF d.signal \in {"buy", "sell"} THEN open_or_add(st, d, md, t, d.signal, place_ok)
      ELSE Ret(st, <<>>, d, FALSE)

\* the single-side branch reversing instead: the position is dropped and the
\* opposite side opened in the same call
single_side_reversing(st, d, place_ok) ==
  Ret([st EXCEPT !.local_pos = IF d.signal = "sell" THEN -min_vol ELSE min_vol,
                 !.current_plan_id = d.id],
      <<Order("flatten", 0, 0), Order(IF d.signal = "sell" THEN "short" ELSE "buy", 0, min_vol)>>,
      d, FALSE)

\* SINGLE_SIDE_MODE: an opposite signal flattens and ends the current plan
single_side_flatten(st, d, place_ok) ==
  IF place_ok
  THEN Ret([st EXCEPT !.current_plan_id = 0], <<Order("flatten", 0, 0)>>, d, FALSE)
  ELSE Ret(st, <<>>, d, TRUE)

execute_decision(st, d0, md, t, place_ok) ==
  LET d == size_fallback([d0 EXCEPT !.signal = normalize_signal(d0.signal)], md)
      pos_now == st.local_pos
      ref_px == IF st.last_exit_price # 0 THEN st.last_exit_price ELSE st.last_entry_px
  IN  IF is_ai_insane(d, md.close) THEN Ret(st, <<>>, d, FALSE)
      ELSE IF d.conf_kind = "bad" THEN Ret(st, <<>>, d, TRUE)
      ELSE IF d.conf < MIN_AI_CONFIDENCE THEN Ret(st, <<>>, d, FALSE)
      ELSE IF d.signal \in {"buy", "sell"} /\ pos_now = 0 /\ in_reentry_cooldown(st, t)
           THEN Ret(st, <<>>, d, FALSE)
      ELSE IF /\ d.signal \in {"buy", "sell"} /\ pos_now = 0
              /\ MIN_REENTRY_GAP_TICKS # 0 /\ ref_px # 0
              /\ Abs(md.close - ref_px) < MIN_REENTRY_GAP_TICKS * TickSize
           THEN Ret(st, <<>>, d, FALSE)
      ELSE IF (d.signal = "sell" /\ pos_now > 0) \/ (d.signal = "buy" /\ pos_now < 0)
           THEN single_side_flatten(st, d, place_ok)
      ELSE IF d.signal \in {"buy", "sell"} THEN open_or_add(st, d, md, t, d.signal, place_ok)
      ELSE IF d.signal = "close"
           THEN IF place_ok
                THEN Ret([st EXCEPT
                            !.local_pos = 0, !.avg_price = 0,
                            !.last_exit_price = md.close,
                            !.reentry_until = t + REENTRY_COOLDOWN_SECS,
                            !.cooldown_until = IF d.cd > 0 THEN t + d.cd * 60 ELSE @],
                         <<Order("flatten", 0, 0)>>, d, FALSE)
                ELSE Ret(st, <<>>, d, FALSE)
      ELSE Ret(st, <<>>, d, FALSE)

\* ---------------------------------------------- per-symbol state (kimi)
Tick(last, bid, ask) == [last_price |-> last, bid_price_1 |-> bid, ask_price_1 |-> ask]
NoTick == Tick(0, 0, 0)

\* calculate_indicators: what of it the market snapshot carries further
Indicators(atr, liq, trend) == [atr |-> atr, liquidity_state |-> liq, d_trend |-> trend]
NoIndicators == Indicators(0, "NORMAL", "SIDEWAYS")

\* collect_market_data: the snapshot built from the last tick and the indicators
collect_market_data(tk, ind) ==
  MarketData(tk.last_price, tk.bid_price_1, tk.ask_price_1, ind.atr,
             ind.liquidity_state, ind.d_trend)

\* the state on_init (kimi) builds for a symbol; has_tick, has_ind and md_ready
\* tell a stored value from None
\* state['scale_out_plan'] = None; a plan keeps its normalised shares as the
\* numerators pcts over their sum pct_total, and init_volume 0 stands for None
NoPlan ==
  [set |-> FALSE, pcts |-> <<>>, pct_total |-> 1, targets |-> <<>>, executed |-> <<>>,
   init_volume |-> 0, tranche_qtys |-> <<>>, side |-> "long"]

InitSymStateKimi(stag) ==
  [local_pos |-> 0, position_avg_price |-> 0, realized_pnl |-> 0,
   ai_interval_secs |-> 180, last_ai_call_time |-> 0,
   cooldown_until |-> 0, reentry_until |-> 0, pending_cooldown_minutes |-> 0,
   ai_in_flight |-> FALSE, stagger_offset |-> stag,
   pending_decision |-> NoDecision, pending_seq |-> 0,
   last_consumed_seq |-> 0, ai_job_seq |-> 0,
   ai_decision |-> NoStop, trailing |-> "none", peak_price |-> 0, trough_price |-> 0,
   last_entry_px |-> 0, last_exit_price |-> 0,
   has_tick |-> FALSE, last_tick |-> NoTick,
   has_ind |-> FALSE, last_indicators |-> NoIndicators,
   md_ready |-> FALSE, last_market_data |-> collect_market_data(NoTick, NoIndicators),
   trading_day |-> 0, enough_bars |-> FALSE,
   scale_out_plan |-> NoPlan]

\* derive_adaptive_defaults over Config.ADAPTIVE_PARAMS; trailing_atr_mult is a
\* whole number, trailing_percent is in permille of the price
derive_adaptive_defaults(md) ==
  LET base == IF md.d_trend \in {"UPTREND", "DOWNTREND"}
              THEN [ai_interval_secs |-> 180, cooldown_minutes |-> 5,
                    position_size_pct |-> 60, trailing_type |-> "atr",
                    trailing_atr_mult |-> 2, trailing_percent |-> 0]
              ELSE [ai_interval_secs |-> 240, cooldown_minutes |-> 10,
                    position_size_pct |-> 30, trailing_type |-> "percent",
                    trailing_atr_mult |-> 0, trailing_percent |-> 7]
  IN  IF md.liquidity_state = "THIN"
      THEN [base EXCEPT !.position_size_pct = Min(@, 30),
                        !.cooldown_minutes = Max(1, @)]
      ELSE base

\* state.get('adaptive') or {}: the defaults the executor reads from it
adaptive_of(st) ==
  IF st.md_ready THEN derive_adaptive_defaults(st.last_market_data)
  ELSE [ai_interval_secs |-> 180, cooldown_minutes |-> 0, position_size_pct |-> 50,
        trailing_type |-> "none", trailing_atr_mult |-> 0, trailing_percent |-> 0]

\* estimate_account (kimi)
Kimi_estimate_account(st, last_price) ==
  LET pos == st.local_pos
      avg == st.position_avg_price
      float_pnl == IF pos > 0 THEN (last_price - avg) * Abs(pos) * mult
                   ELSE IF pos < 0 THEN (avg - last_price) * Abs(pos) * mult
                   ELSE 0
      used == IF pos > 0 THEN (Abs(pos) * last_price * mult * Max(1, long_mr)) \div 100
              ELSE IF pos < 0 THEN (Abs(pos) * last_price * mult * Max(1, short_mr)) \div 100
              ELSE 0
      equity == Kimi_INITIAL_CASH + st.realized_pnl + float_pnl
  IN  [equity |-> equity, available |-> Max(0, equity - used), margin |-> used]

\* ------------------------------------------------------ the executor (kimi)
\* str.lower() on the signals of the input domains
Lower(s) == IF s = "BUY" THEN "buy" ELSE IF s = "SELL" THEN "sell" ELSE s

\* execute_decision._is_ai_insane: the verdict and the decision object, which
\* the check rewrites when the size is above the rulebook maximum
Kimi_is_ai_insane(d, md) ==
  LET sig == Lower(d.signal)
      is_counter == \/ md.d_trend = "UPTREND" /\ sig = "sell"
                    \/ md.d_trend = "DOWNTREND" /\ sig = "buy"
      clamped == IF d.size > Kimi_MAX_POSITION_PCT
                 THEN [d EXCEPT !.size = Kimi_MAX_POSITION_PCT] ELSE d
  IN  IF sig \notin {"buy", "sell", "close", "hold"} THEN [insane |-> TRUE, dec |-> d]
      ELSE IF sig \in {"buy", "sell"} /\ d.stop_kind # "num" THEN [insane |-> TRUE, dec |-> d]
      ELSE IF d.size_kind = "bad" THEN [insane |-> FALSE, dec |-> d]
      ELSE IF ~is_counter /\ d.rrr # 0 /\ d.rrr < Kimi_MIN_RRR_X10
           THEN [insane |-> TRUE, dec |-> clamped]
      ELSE [insane |-> FALSE, dec |-> clamped]

\* the LOW_CHURN_MODE gate: whether it drops the decision, and the decision and
\* the state it leaves (a counter-trend trade is shrunk and its cooldown raised)
low_churn_gate(st, d, md, confidence) ==
  LET is_counter == \/ md.d_trend = "UPTREND" /\ d.signal = "sell"
                    \/ md.d_trend = "DOWNTREND" /\ d.signal = "buy"
  IN  IF ~(LOW_CHURN_MODE /\ d.signal \in {"buy", "sell"})
      THEN [drop |-> FALSE, dec |-> d, st |-> st]
      ELSE IF is_counter
      THEN IF confidence < CT_MIN_CONF \/ d.rrr < CT_MIN_RRR_X10
           THEN [drop |-> TRUE, dec |-> d, st |-> st]
           ELSE [drop |-> FALSE,
                 dec |-> IF d.size > CT_MAX_PCT THEN [d EXCEPT !.size = CT_MAX_PCT] ELSE d,
                 st |-> [st EXCEPT !.pending_cooldown_minutes = Max(@, CT_COOLDOWN_MIN)]]
      ELSE IF d.rrr # 0 /\ d.rrr < TREND_MIN_RRR_X10
      THEN [drop |-> TRUE, dec |-> d, st |-> st]
      ELSE [drop |-> FALSE, dec |-> d, st |-> st]

\* execute_decision._adjust_position_size
adjust_position_size(base_pct, d, md) ==
  LET p0 == Max(0, Min(100, base_pct))
      p1 == IF d.tradeability < 70 THEN Min(p0, 30) ELSE p0
      p2 == IF md.liquidity_state = "THIN" THEN Min(p1, 30) ELSE p1
      mid2 == md.bid + md.ask
      p3 == IF md.spread # 0 /\ mid2 > 0
               /\ 2 * 1000 * md.spread > Kimi_SPREAD_RATIO_LIMIT_PERMILLE * mid2
            THEN Min(p2, 30) ELSE p2
  IN  IF d.tradeability < 50 THEN 0 ELSE Min(p3, Kimi_MAX_POSITION_PCT)

\* execute_decision._choose_price, in half units
Kimi_choose_price2(md, tk, style, side) ==
  IF style = "mid" /\ md.bid + md.ask # 0 THEN md.bid + md.ask
  ELSE IF style = "market" THEN 2 * tk.last_price
  ELSE IF side = "buy" THEN 2 * tk.ask_price_1 ELSE 2 * tk.bid_price_1

\* execute_decision._align_price on a price in half units: ceil or floor of the
\* number of ticks
Kimi_align_price(p2, side) ==
  IF side \in {"buy", "cover"} THEN CeilTo(p2, 2 * TickSize) \div 2
  ELSE FloorTo(p2, 2 * TickSize) \div 2

\* the order price: aligned to the tick, then quantized by _normalize_price
Kimi_order_price_of(md, tk, style, side) ==
  normalize_price(2 * Kimi_align_price(Kimi_choose_price2(md, tk, style, side), side))

\* execute_decision._guard_and_rebase_stop
guard_and_rebase_stop(side, entry_price, sl_in, atr_val) ==
  LET min_ticks == Max(1, Kimi_MIN_STOP_TICKS)
      min_gap == IF TickSize > 0
                 THEN Max(min_ticks * TickSize, (atr_val * Kimi_MIN_STOP_ATR_MULT_PCT) \div 100)
                 ELSE (atr_val * Kimi_MIN_STOP_ATR_MULT_PCT) \div 100
      R_ai == IF side = "long" THEN Max(0, entry_price - sl_in)
              ELSE Max(0, sl_in - entry_price)
      R_new == Max(R_ai, min_gap)
  IN  IF side = "long" THEN FloorTo(entry_price - R_new, TickSize)
      ELSE CeilTo(entry_price + R_new, TickSize)

\* margin_per_lot = notional_per_lot * max(mr, 0.01), in yuan
Kimi_margin_per_lot_of(price, mr) == (price * mult * Max(1, mr)) \div 100

\* max_lots_by_margin = int(available / (margin_per_lot * NEW_TRADE_MARGIN_BUFFER))
Kimi_max_lots_by_margin_of(available, margin_per_lot) ==
  PyInt(available * 100, margin_per_lot * Kimi_NEW_TRADE_MARGIN_BUFFER)

\* lots_by_target = int(equity * position_size / notional_per_lot)
lots_by_target_of(equity, position_size, price) ==
  IF price * mult > 0 THEN PyInt(equity * position_size, 100 * price * mult) ELSE 0

\* the lot count of an opening order, or -1 when the sizing rejects it
Kimi_open_volume(max_lots_by_margin, lots_by_target) ==
  LET volume == Min(max_lots_by_margin, lots_by_target)
      min_lots == Max(1, min_vol)
  IN  IF volume < min_lots
      THEN IF lots_by_target < min_lots /\ max_lots_by_margin >= min_lots
           THEN min_lots ELSE -1
      ELSE volume

\* the guarantee-ratio check of the open and of the pyramid branch
Kimi_guarantee_ok(equity, used_margin, volume, margin_per_lot) ==
  LET margin_post == used_margin + volume * margin_per_lot
  IN  IF margin_post > 0 THEN equity * 100 >= Kimi_MIN_GUARANTEE_RATIO * margin_post
      ELSE TRUE

\* same-side pyramiding, long (side = "buy") and short (side = "sell")
Kimi_pyramid(st, d, md, tk, side, place_ok) ==
  LET position_size == adjust_position_size(d.size, d, md)
      order_price == Kimi_order_price_of(md, tk, d.style, side)
      price_for_size == IF order_price > 0 THEN order_price ELSE tk.last_price
      acc == Kimi_estimate_account(st, tk.last_price)
      mpl == Kimi_margin_per_lot_of(price_for_size, IF side = "buy" THEN long_mr ELSE short_mr)
      max_lots == Kimi_max_lots_by_margin_of(acc.available, mpl)
      target_lots == lots_by_target_of(acc.equity, position_size, price_for_size)
      volume == Max(0, Min(max_lots, target_lots) - Abs(st.local_pos))
  IN  IF position_size <= 0 THEN Ret(st, <<>>, d, FALSE)
      ELSE IF mpl <= 0 THEN Ret(st, <<>>, d, FALSE)
      ELSE IF volume <= 0 THEN Ret(st, <<>>, d, FALSE)
      ELSE IF ~Kimi_guarantee_ok(acc.equity, acc.margin, volume, mpl) THEN Ret(st, <<>>, d, FALSE)
      ELSE IF ~place_ok THEN Ret(st, <<>>, d, TRUE)
      ELSE Ret(st, <<Order(IF side = "buy" THEN "buy" ELSE "short", order_price, volume)>>,
               d, FALSE)

\* the sum of a sequence of numbers
RECURSIVE SeqSum(_)
SeqSum(q) == IF q = <<>> THEN 0 ELSE q[1] + SeqSum(Tail(q))

\* pairs.sort(key=lambda x: x[0]): a stable sort of <<level, share>> pairs
RECURSIVE InsertPair(_, _)
InsertPair(q, x) ==
  IF q = <<>> THEN <<x>>
  ELSE IF x[1] < q[1][1] THEN <<x>> \o q
  ELSE <<q[1]>> \o InsertPair(Tail(q), x)
RECURSIVE SortPairs(_)
SortPairs(q) ==
  IF q = <<>> THEN <<>> ELSE InsertPair(SortPairs(SubSeq(q, 1, Len(q) - 1)), q[Len(q)])

\* the scale-out plan an open stores: the levels (multiples of R = |entry -
\* stop|) and shares of the decision, without the non-positive ones, sorted by
\* level; the plan of the state stays when no pair is left
scale_out_plan_of(st, d, order_price, side) ==
  LET lv == d.scale_out_levels_r
      pc == d.scale_out_pcts
      all == [i \in 1..Len(lv) |-> <<lv[i], pc[i]>>]
      pairs == SortPairs(SelectSeq(all, LAMBDA x : x[1] > 0 /\ x[2] > 0))
      levels == [i \in 1..Len(pairs) |-> pairs[i][1]]
      pcts == [i \in 1..Len(pairs) |-> pairs[i][2]]
      sl == d.stop
      R == IF side = "buy" THEN order_price - sl ELSE sl - order_price
  IN  IF Len(lv) # Len(pc) \/ Len(lv) = 0 THEN NoPlan
      ELSE IF pairs = <<>> THEN st.scale_out_plan
      ELSE IF sl > 0 /\ order_price > 0 /\ R > 0
      THEN [set |-> TRUE, pcts |-> pcts, pct_total |-> SeqSum(pcts),
            targets |-> [i \in 1..Len(levels) |->
                           IF side = "buy" THEN order_price + levels[i] * R
                           ELSE order_price - levels[i] * R],
            executed |-> [i \in 1..Len(levels) |-> FALSE],
            init_volume |-> 0, tranche_qtys |-> <<>>,
            side |-> IF side = "buy" THEN "long" ELSE "short"]
      ELSE NoPlan

\* the lots of each tranche for a base of lots: the share of the base rounded
\* down, one lot in the last tranche when all round to zero, and what is left
\* of the base in the last tranche
tranche_qtys_of(base, pcts, tot) ==
  LET n == Len(pcts)
      raw0 == [i \in 1..n |-> Max(0, (base * pcts[i]) \div tot)]
      raw1 == IF SeqSum(raw0) = 0 THEN [i \in 1..n |-> IF i = n THEN 1 ELSE 0] ELSE raw0
  IN  IF SeqSum(raw1) < base
      THEN [raw1 EXCEPT ![n] = @ + (base - SeqSum(raw1))]
      ELSE raw1

\* the plan once its base is known: init_volume and the tranche quantities are
\* fixed the first time the position is seen non-flat
plan_with_base(plan, pos) ==
  IF plan.set /\ plan.init_volume = 0
  THEN IF Abs(pos) > 0
       THEN [plan EXCEPT !.init_volume = Abs(pos),
                         !.tranche_qtys = tranche_qtys_of(Abs(pos), plan.pcts,
                                                          plan.pct_total)]
       ELSE [plan EXCEPT !.tranche_qtys = <<>>]
  ELSE plan

\* a tranche loop that sends the partial close without ticking the tranche off
RECURSIVE tranche_loop_resending(_, _, _, _, _, _)
tranche_loop_resending(plan, i, cur_abs, tk, place_ok, acc) ==
  IF i > Len(plan.targets) \/ i > Len(plan.executed) \/ i > Len(plan.tranche_qtys)
  THEN acc
  ELSE IF acc.executed[i] \/ plan.tranche_qtys[i] <= 0
  THEN tranche_loop_resending(plan, i + 1, cur_abs, tk, place_ok, acc)
  ELSE IF cur_abs <= 0 THEN acc
  ELSE LET vol_i == Min(plan.tranche_qtys[i], cur_abs)
           hit == IF plan.side = "long" THEN tk.last_price >= plan.targets[i]
                  ELSE tk.last_price <= plan.targets[i]
           o == IF plan.side = "long"
                THEN Order("sell", FloorTo(tk.bid_price_1, TickSize), vol_i)
                ELSE Order("cover", CeilTo(tk.ask_price_1, TickSize), vol_i)
       IN  tranche_loop_resending(plan, i + 1, cur_abs, tk, place_ok,
             IF hit /\ place_ok
             THEN [executed |-> acc.executed, sells |-> Append(acc.sells, o)]
             ELSE acc)

\* the tranche loop of check_and_enforce from tranche i on: the executed flags
\* and the orders sent; a tranche of no lots is ticked off, a tranche whose
\* target the price has reached sells (covers) its lots, at most the position
RECURSIVE tranche_loop(_, _, _, _, _, _)
tranche_loop(plan, i, cur_abs, tk, place_ok, acc) ==
  IF i > Len(plan.targets) \/ i > Len(plan.executed) \/ i > Len(plan.tranche_qtys)
  THEN acc
  ELSE IF acc.executed[i] THEN tranche_loop(plan, i + 1, cur_abs, tk, place_ok, acc)
  ELSE IF plan.tranche_qtys[i] <= 0
  THEN tranche_loop(plan, i + 1, cur_abs, tk, place_ok,
                    [acc EXCEPT !.executed[i] = TRUE])
  ELSE IF cur_abs <= 0 THEN acc
  ELSE LET vol_i == Min(plan.tranche_qtys[i], cur_abs)
           hit == IF plan.side = "long" THEN tk.last_price >= plan.targets[i]
                  ELSE tk.last_price <= plan.targets[i]
           o == IF plan.side = "long"
                THEN Order("sell", FloorTo(tk.bid_price_1, TickSize), vol_i)
                ELSE Order("cover", CeilTo(tk.ask_price_1, TickSize), vol_i)
       IN  IF hit /\ place_ok
           THEN tranche_loop(plan, i + 1, cur_abs, tk, place_ok,
                             [executed |-> [acc.executed EXCEPT ![i] = TRUE],
                              sells |-> Append(acc.sells, o)])
           ELSE tranche_loop(plan, i + 1, cur_abs, tk, place_ok, acc)

\* the scale-out step that ends check_and_enforce
scale_out(st, tk, place_ok) ==
  LET plan == plan_with_base(st.scale_out_plan, st.local_pos)
      r == tranche_loop(plan, 1, Abs(st.local_pos), tk, place_ok,
                        [executed |-> plan.executed, sells |-> <<>>])
  IN  IF ~st.scale_out_plan.set THEN [st |-> st, sells |-> <<>>]
      ELSE [st |-> [st EXCEPT !.scale_out_plan = [plan EXCEPT !.executed = r.executed]],
            sells |-> r.sells]

\* a new position, long (side = "buy") or short (side = "sell"); cd is the
\* cooldown the end of execute_decision stores
Kimi_open(st, d, md, tk, side, place_ok, cd) ==
  LET position_size == adjust_position_size(d.size, d, md)
      order_price == Kimi_order_price_of(md, tk, d.style, side)
      price_for_size == IF order_price > 0 THEN order_price ELSE tk.last_price
      acc == Kimi_estimate_account(st, tk.last_price)
      mpl == Kimi_margin_per_lot_of(price_for_size, IF side = "buy" THEN long_mr ELSE short_mr)
      max_lots == Kimi_max_lots_by_margin_of(acc.available, mpl)
      lots_by_target == lots_by_target_of(acc.equity, position_size, price_for_size)
      volume == Kimi_open_volume(max_lots, lots_by_target)
      sl_new == guard_and_rebase_stop(IF side = "buy" THEN "long" ELSE "short",
                                      order_price, d.stop, md.atr)
      d_out == [d EXCEPT !.stop = sl_new]
      adaptive == adaptive_of(st)
  IN  IF position_size <= 0 THEN Ret(st, <<>>, d, FALSE)
      ELSE IF mpl <= 0 THEN Ret(st, <<>>, d, FALSE)
      ELSE IF volume < 0 THEN Ret(st, <<>>, d, FALSE)
      ELSE IF ~Kimi_guarantee_ok(acc.equity, acc.margin, volume, mpl) THEN Ret(st, <<>>, d, FALSE)
      ELSE IF ~place_ok THEN Ret(st, <<>>, d_out, TRUE)
      ELSE Ret([st EXCEPT
                  !.last_entry_px = order_price,
                  !.ai_decision = [set |-> TRUE, stop_loss |-> sl_new],
                  !.position_avg_price = order_price,
                  !.trailing = adaptive.trailing_type,
                  !.peak_price = order_price,
                  !.trough_price = order_price,
                  !.scale_out_plan = scale_out_plan_of(st, d_out, order_price, side),
                  !.pending_cooldown_minutes = cd],
               <<Order(IF side = "buy" THEN "buy" ELSE "short", order_price, volume)>>,
               d_out, FALSE)

\* TradeExecutor.execute_decision (kimi); t is time.time()
Kimi_execute_decision(st, d0, tk, t, place_ok) ==
  LET md == st.last_market_data
      g == Kimi_is_ai_insane(d0, md)
      signal == d0.signal
      confidence == IF d0.conf_kind = "num" THEN d0.conf ELSE 0
      cur == st.local_pos
      adaptive == adaptive_of(st)
      cd == IF g.dec.cd > 0 THEN g.dec.cd ELSE adaptive.cooldown_minutes
      d1 == IF g.dec.size <= 0 THEN [g.dec EXCEPT !.size = adaptive.position_size_pct]
            ELSE g.dec
      lc == low_churn_gate(st, d1, md, confidence)
      d == lc.dec
      s1 == lc.st
      flat_st == [s1 EXCEPT !.ai_decision = NoStop, !.position_avg_price = 0]
      done == [s1 EXCEPT !.pending_cooldown_minutes = cd]
  IN  IF d0.conf_kind = "bad" THEN Ret(st, <<>>, d0, TRUE)
      ELSE IF g.insane THEN Ret(st, <<>>, g.dec, FALSE)
      ELSE IF confidence < Kimi_MIN_AI_CONFIDENCE THEN Ret(st, <<>>, g.dec, FALSE)
      ELSE IF signal \in {"buy", "sell"} /\ g.dec.stop_kind # "num" THEN Ret(st, <<>>, g.dec, FALSE)
      ELSE IF g.dec.size_kind = "bad" THEN Ret(st, <<>>, g.dec, TRUE)
      ELSE IF lc.drop THEN Ret(st, <<>>, d, FALSE)
      ELSE IF signal \in {"buy", "sell"} /\ cur = 0 /\ in_reentry_cooldown(s1, t)
           THEN Ret(s1, <<>>, d, FALSE)
      ELSE IF /\ signal \in {"buy", "sell"} /\ cur = 0
              /\ Kimi_MIN_REENTRY_GAP_TICKS # 0 /\ TickSize > 0
              /\ (IF s1.last_exit_price # 0 THEN s1.last_exit_price ELSE s1.last_entry_px) # 0
              /\ Abs(tk.last_price
                     - (IF s1.last_exit_price # 0 THEN s1.last_exit_price ELSE s1.last_entry_px))
                   < Kimi_MIN_REENTRY_GAP_TICKS * TickSize
           THEN Ret(s1, <<>>, d, FALSE)
      ELSE IF signal \in {"buy", "sell"} /\ cur = 0 /\ s1.cooldown_until # 0 /\ t < s1.cooldown_until
           THEN Ret(s1, <<>>, d, FALSE)
      ELSE IF /\ SINGLE_SIDE_MODE
              /\ ((signal = "sell" /\ cur > 0) \/ (signal = "buy" /\ cur < 0))
           THEN IF place_ok THEN Ret(flat_st, <<Order("flatten", 0, 0)>>, d, FALSE)
                ELSE Ret(done, <<>>, d, FALSE)
      ELSE IF ALLOW_SAME_SIDE_PYRAMIDING
              /\ ((signal = "buy" /\ cur > 0) \/ (signal = "sell" /\ cur < 0))
           THEN Kimi_pyramid(s1, d, md, tk, signal, place_ok)
      ELSE IF signal \in {"buy", "sell"} /\ cur = 0
           THEN Kimi_open(s1, d, md, tk, signal, place_ok, cd)
      ELSE IF signal = "close" /\ cur # 0
           THEN IF place_ok
                THEN Ret([flat_st EXCEPT !.pending_cooldown_minutes = cd],
                         <<Order("flatten", 0, 0)>>, d, FALSE)
                ELSE Ret(s1, <<>>, d, TRUE)
      ELSE IF signal = "adjust_stop" /\ cur # 0
           THEN Ret(IF s1.ai_decision.set
                    THEN [done EXCEPT !.ai_decision.stop_loss = d.stop]
                    ELSE done,
                    <<>>, d, FALSE)
      ELSE Ret(done, <<>>, d, FALSE)

\* ------------------------------------------------------------------ state
VARIABLES
  impl,             \* which implementation runs
  nkeys,            \* number of API keys configured
  inflight,         \* key pool: calls in flight per key
  ptr,              \* key pool: round-robin pointer (kimi)
  state,            \* context.state: per-symbol state
  trading_allowed,  \* context.trading_allowed
  jobs,             \* background AI jobs that have been started and not ended
  frame,            \* the platform thread inside on_bar, between its two halves
  now,              \* time.time()
  orders,           \* venue: orders sent and not yet filled
  venue_pos,        \* venue: the true position, the sum of signed fills
  venue_book,       \* venue: average entry price and realized P&L of the true position
  call,             \* the executor call or risk pass made by the last step, if any
  exec_count        \* how often each oracle result was passed to the executor

vars == <<impl, nkeys, inflight, ptr, state, trading_allowed, jobs, frame, now,
          orders, venue_pos, venue_book, call, exec_count>>

\* the venue's books after a fill of q lots (signed) at price px: opening lots
\* enter the average at their price, closing lots realize (px - avg) per lot of
\* a long and (avg - px) per lot of a short, times the multiplier
NoBook == [avg |-> 0, realized |-> 0]
book_fill(b, pos, q, px) ==
  LET closing == IF pos > 0 /\ q < 0 THEN Min(pos, -q)
                 ELSE IF pos < 0 /\ q > 0 THEN Min(-pos, q)
                 ELSE 0
      opening == Abs(q) - closing
      gain == IF pos > 0 THEN (px - b.avg) * closing * mult
              ELSE (b.avg - px) * closing * mult
      held == Abs(pos) - closing
  IN  [avg |-> IF held + opening = 0 THEN 0
               ELSE IF opening = 0 THEN b.avg
               ELSE (held * (IF held = 0 THEN 0 ELSE b.avg) + opening * px) \div (held + opening),
       realized |-> b.realized + gain]

StartTime == 1000
StaggerChoices == {0, 4}
Idle == [pc |-> "idle", sym |-> "au", md |-> MarketData(0, 0, 0, 0, "NORMAL", "SIDEWAYS"),
         now |-> 0, last_call |-> 0, in_cd |-> FALSE]
NoCall == [on |-> FALSE, sym |-> "au", d |-> NoDecision, md |-> Idle.md,
           last_price |-> 0, pre |-> InitSymState(0), out |-> <<>>, ta |-> TRUE,
           raised |-> FALSE, t |-> 0, place_ok |-> TRUE]

InitCommon ==
  /\ nkeys \in 1..MaxKeys
  /\ inflight = [i \in 1..nkeys |-> 0]
  /\ ptr = 0
  /\ state \in [Symbols -> {IF impl = "v2" THEN InitSymState(g) ELSE InitSymStateKimi(g) :
                               g \in StaggerChoices}]
  /\ trading_allowed = TRUE
  /\ jobs = {}
  /\ frame = Idle
  /\ now = StartTime
  /\ orders = <<>>
  /\ venue_pos = [s \in Symbols |-> 0]
  /\ venue_book = [s \in Symbols |-> NoBook]
  /\ call = NoCall
  /\ exec_count = [s \in Symbols |-> [q \in 1..MaxSeq |-> 0]]

\* the clock moves between handlers
Advance ==
  /\ now < StartTime + MaxTime * BarSecs
  /\ now' = now + BarSecs
  /\ call' = NoCall
  /\ UNCHANGED <<impl, nkeys, inflight, ptr, state, trading_allowed, jobs, frame,
                 orders, venue_pos, venue_book, exec_count>>

\* a task that also starts the symbol's cooldown when its result arrives; C27
\* does not hold with it
JobReturn_applying(j, d) ==
  /\ j \in jobs /\ j.pc = "call"
  /\ state' = [state EXCEPT ![j.sym].pending_decision = [d EXCEPT !.id = j.seq],
                            ![j.sym].cooldown_until = now + BarSecs]
  /\ jobs' = (jobs \ {j}) \cup {[j EXCEPT !.pc = "write_seq"]}
  /\ call' = NoCall
  /\ UNCHANGED <<impl, nkeys, inflight, ptr, trading_allowed, frame, now, orders,
                 venue_pos, venue_book, exec_count>>

\* ------------------------------------------------- background AI job (v2)
\* _run_ai: the oracle call returned a decision; first write: pending_decision
JobReturn(j, d) ==
  /\ j \in jobs /\ j.pc = "call"
  /\ state' = [state EXCEPT ![j.sym].pending_decision = [d EXCEPT !.id = j.seq]]
  /\ jobs' = (jobs \ {j}) \cup {[j EXCEPT !.pc = "write_seq"]}
  /\ call' = NoCall
  /\ UNCHANGED <<impl, nkeys, inflight, ptr, trading_allowed, frame, now, orders,
                 venue_pos, venue_book, exec_count>>

\* a writer that keeps only the lowest bit of the job's sequence number
JobWriteSeq_onebit(j) ==
  /\ j \in jobs /\ j.pc = "write_seq"
  /\ state' = [state EXCEPT ![j.sym].pending_seq = j.seq % 2]
  /\ jobs' = (jobs \ {j}) \cup {[j EXCEPT !.pc = "finally"]}
  /\ call' = NoCall
  /\ UNCHANGED <<impl, nkeys, inflight, ptr, trading_allowed, frame, now, orders,
                 venue_pos, venue_book, exec_count>>

\* _run_ai: second write: pending_seq
JobWriteSeq(j) ==
  /\ j \in jobs /\ j.pc = "write_seq"
  /\ state' = [state EXCEPT ![j.sym].pending_seq = j.seq]
  /\ jobs' = (jobs \ {j}) \cup {[j EXCEPT !.pc = "finally"]}
  /\ call' = NoCall
  /\ UNCHANGED <<impl, nkeys, inflight, ptr, trading_allowed, frame, now, orders,
                 venue_pos, venue_book, exec_count>>

\* a failure path that empties the slot
JobFail_erasing(j) ==
  /\ j \in jobs /\ j.pc = "call"
  /\ state' = [state EXCEPT ![j.sym].pending_decision = NoDecision]
  /\ jobs' = (jobs \ {j}) \cup {[j EXCEPT !.pc = "finally"]}
  /\ call' = NoCall
  /\ UNCHANGED <<impl, nkeys, inflight, ptr, trading_allowed, frame, now,
                 orders, venue_pos, venue_book, exec_count>>

\* the oracle call returned an error or raised: nothing is written
JobFail(j) ==
  /\ j \in jobs /\ j.pc = "call"
  /\ jobs' = (jobs \ {j}) \cup {[j EXCEPT !.pc = "finally"]}
  /\ call' = NoCall
  /\ UNCHANGED <<impl, nkeys, inflight, ptr, state, trading_allowed, frame, now,
                 orders, venue_pos, venue_book, exec_count>>

\* finally: the call time (v2 only) and the in-flight flag
JobFinally(j) ==
  /\ j \in jobs /\ j.pc = "finally"
  /\ state' = [state EXCEPT
                 ![j.sym].last_ai_call_time = IF impl = "v2" THEN now ELSE @,
                 ![j.sym].ai_in_flight = FALSE]
  /\ jobs' = (jobs \ {j}) \cup {[j EXCEPT !.pc = "release"]}
  /\ call' = NoCall
  /\ UNCHANGED <<impl, nkeys, inflight, ptr, trading_allowed, frame, now, orders,
                 venue_pos, venue_book, exec_count>>

\* finally: the key goes back to the pool and the thread ends
JobRelease(j) ==
  /\ j \in jobs /\ j.pc = "release"
  /\ inflight' = KeyPool_release(nkeys, inflight, j.kidx)
  /\ jobs' = jobs \ {j}
  /\ call' = NoCall
  /\ UNCHANGED <<impl, nkeys, ptr, state, trading_allowed, frame, now, orders,
                 venue_pos, venue_book, exec_count>>

\* ------------------------------------------------------ risk heartbeat (v2)
StartClock == 53520
\* the bar's time of day, in seconds since midnight
ClockOf(t) == (StartClock + (t - StartTime)) % 86400

\* _force_close_deadline and the comparison now_dt >= deadline_dt
deadline_reached(tod) ==
  IF tod >= 21 * 3600 THEN FALSE
  ELSE IF tod < 3 * 3600 THEN tod >= 2 * 3600 + 25 * 60
  ELSE tod >= 14 * 3600 + 55 * 60

\* _risk_heartbeat on the state dict st it looks up: the dict afterwards,
\* whether a flatten order was sent, whether it assigned trading_allowed = False
\* on the context object it was given
risk_heartbeat(st, px, t) ==
  LET pos == st.local_pos
      flat == [st EXCEPT !.local_pos = 0, !.avg_price = 0]
      sl == st.ai_decision.stop_loss
  IN  IF deadline_reached(ClockOf(t))
      THEN [st |-> IF pos # 0 THEN flat ELSE st, flatten |-> pos # 0, halt |-> TRUE]
      ELSE IF /\ pos # 0 /\ st.ai_decision.set /\ sl # 0
              /\ ((pos > 0 /\ px <= sl) \/ (pos < 0 /\ px >= sl))
      THEN [st |-> [flat EXCEPT !.last_exit_price = px,
                                !.reentry_until = t + REENTRY_COOLDOWN_SECS],
            flatten |-> TRUE, halt |-> FALSE]
      ELSE IF estimate_account(st, px).equity * 100 <= INITIAL_CASH * (100 - MAX_DAILY_LOSS_PCT)
      THEN [st |-> IF pos # 0 THEN flat ELSE st, flatten |-> pos # 0, halt |-> TRUE]
      ELSE [st |-> st, flatten |-> FALSE, halt |-> FALSE]

\* _SymContext(ctx, sym).state.get(sym, {}): the proxy's state is already the
\* symbol's dict, which has no entry named after the symbol, so the lookup
\* yields a fresh empty dict; every field reads as its default
SymContext_state_get(st) == InitSymState(0)

\* ------------------------------------------------- risk controller (kimi)
\* on_tick._next_trading_date: the trading day of a moment (rollover at 21:00);
\* 0 stands for None
TradingDayOf(t) == ((StartClock + (t - StartTime) + 3 * 3600) \div 86400) + 1

\* RiskController.check_and_enforce on the symbol's state: the state afterwards,
\* whether a flatten order was sent, context.trading_allowed afterwards, and
\* whether send_target_order raised: the flattens are sent outside any try.
\* The oracle's decisions of the input domains carry no time stop.
check_and_enforce(st, tk, t, ta, place_ok) ==
  LET pos == st.local_pos
      px == tk.last_price
      avg == st.position_avg_price
      unrealized == IF pos > 0 THEN (px - avg) * Abs(pos) * mult
                    ELSE (avg - px) * Abs(pos) * mult
      equity == Kimi_estimate_account(st, px).equity
      base_equity == Max(1, equity)
      flat == [st EXCEPT !.ai_decision = NoStop, !.position_avg_price = 0]
      sl == st.ai_decision.stop_loss
      adaptive == adaptive_of(st)
      peak == Max(IF st.peak_price # 0 THEN st.peak_price ELSE px, px)
      trough == Min(IF st.trough_price # 0 THEN st.trough_price ELSE px, px)
      tracked == IF st.trailing = "none" THEN st
                 ELSE IF pos > 0 THEN [st EXCEPT !.peak_price = peak]
                 ELSE [st EXCEPT !.trough_price = trough]
      atr == st.last_market_data.atr
      trail_hit ==
        /\ st.trailing # "none"
        /\ \/ /\ pos > 0 /\ st.trailing = "atr" /\ adaptive.trailing_atr_mult > 0 /\ atr > 0
              /\ px <= tracked.peak_price - adaptive.trailing_atr_mult * atr
           \/ /\ pos > 0 /\ st.trailing = "percent" /\ adaptive.trailing_percent > 0
              /\ px * 1000 <= tracked.peak_price * (1000 - adaptive.trailing_percent)
           \/ /\ pos < 0 /\ st.trailing = "atr" /\ adaptive.trailing_atr_mult > 0 /\ atr > 0
              /\ px >= tracked.trough_price + adaptive.trailing_atr_mult * atr
           \/ /\ pos < 0 /\ st.trailing = "percent" /\ adaptive.trailing_percent > 0
              /\ px * 1000 >= tracked.trough_price * (1000 + adaptive.trailing_percent)
      keep == [st |-> st, flatten |-> FALSE, ta |-> ta, sells |-> <<>>, raised |-> FALSE]
      out(s, a) == IF place_ok
                   THEN [st |-> s, flatten |-> TRUE, ta |-> a, sells |-> <<>>,
                         raised |-> FALSE]
                   ELSE [keep EXCEPT !.raised = TRUE]
      so == scale_out(tracked, tk, place_ok)
  IN  IF pos = 0 THEN keep
      ELSE IF /\ avg # 0 /\ equity > 0
              /\ unrealized * 100 < -(Kimi_MAX_SINGLE_TRADE_LOSS_PCT * equity)
      THEN out(flat, ta)
      ELSE IF daily_pnl * 100 < -(Kimi_MAX_DAILY_LOSS_PCT * base_equity)
      THEN out(flat, FALSE)
      ELSE IF deadline_reached(ClockOf(t))
      THEN out(flat, FALSE)
      ELSE IF ~st.ai_decision.set THEN keep
      ELSE IF sl # 0 /\ ((pos > 0 /\ px <= sl) \/ (pos < 0 /\ px >= sl))
      THEN out(flat, ta)
      ELSE IF trail_hit
      THEN IF place_ok THEN [st |-> [tracked EXCEPT !.ai_decision = NoStop,
                                                    !.position_avg_price = 0],
                             flatten |-> TRUE, ta |-> ta, sells |-> <<>>,
                             raised |-> FALSE]
           ELSE [st |-> tracked, flatten |-> FALSE, ta |-> ta, sells |-> <<>>,
                 raised |-> TRUE]
      ELSE [st |-> so.st, flatten |-> FALSE, ta |-> ta, sells |-> so.sells,
            raised |-> FALSE]

\* ------------------------------------------------ venue callbacks (kimi)
\* update_pos_snapshot_on_fill; st.local_pos is the position after the fill
update_pos_snapshot_on_fill(st, side_buy, is_open, price, volume) ==
  LET pos_after == st.local_pos
      delta == IF is_open THEN (IF side_buy THEN volume ELSE -volume) ELSE 0
      pos_before == IF is_open THEN pos_after - delta
                    ELSE IF pos_after > 0 THEN pos_after + volume
                    ELSE IF pos_after < 0 THEN pos_after - volume
                    ELSE IF ~side_buy THEN volume ELSE -volume
      avg == st.position_avg_price
      realized == st.realized_pnl
      same_side == pos_before = 0 \/ (pos_before > 0 /\ side_buy)
                     \/ (pos_before < 0 /\ ~side_buy)
      total_qty == Abs(pos_before) + volume
      close_qty == IF is_open THEN Min(Abs(pos_before), volume) ELSE volume
      realized_new ==
        IF is_open /\ same_side THEN realized
        ELSE IF is_open
        THEN IF pos_before > 0 /\ ~side_buy THEN realized + (avg - price) * close_qty * mult
             ELSE IF pos_before < 0 /\ side_buy THEN realized + (price - avg) * close_qty * mult
             ELSE realized
        ELSE IF pos_before > 0 /\ ~side_buy THEN realized + (price - avg) * close_qty * mult
        ELSE IF pos_before < 0 /\ side_buy THEN realized + (avg - price) * close_qty * mult
        ELSE realized
      avg_new ==
        IF is_open /\ same_side
        THEN IF total_qty > 0 THEN (Abs(pos_before) * avg + volume * price) \div total_qty
             ELSE price
        ELSE IF is_open
        THEN IF pos_after = 0 THEN 0
             ELSE IF volume - close_qty > 0 THEN price ELSE avg
        ELSE IF pos_after = 0 THEN 0 ELSE avg
  IN  [st EXCEPT !.position_avg_price = avg_new, !.realized_pnl = realized_new]

\* on_trade (kimi)
Kimi_on_trade(st, is_buy, is_open, vol, px) ==
  LET s1 == IF vol # 0
            THEN [st EXCEPT !.local_pos = IF is_buy THEN @ + vol ELSE @ - vol]
            ELSE st
      s2 == update_pos_snapshot_on_fill(s1, is_buy, is_open, px, vol)
  IN  IF s2.local_pos = 0 THEN [s2 EXCEPT !.last_exit_price = px] ELSE s2

\* on_order_status (kimi) for an order reported as fully traded
on_order_status(st, is_open, t) ==
  LET md_trend == IF st.md_ready THEN st.last_market_data.d_trend ELSE "SIDEWAYS"
      cd0 == st.pending_cooldown_minutes
      cd == IF cd0 <= 0
            THEN (IF md_trend \in {"UPTREND", "DOWNTREND"} THEN 5 ELSE 10)
            ELSE cd0
  IN  IF is_open
      THEN [st EXCEPT !.cooldown_until = IF cd > 0 THEN t + cd * 60 ELSE @,
                      !.pending_cooldown_minutes = 0,
                      !.scale_out_plan = IF Abs(st.local_pos) > 0
                                         THEN plan_with_base(@, st.local_pos) ELSE @]
      ELSE [st EXCEPT !.reentry_until = t + Kimi_REENTRY_COOLDOWN_SECS]

\* ------------------------------------------------------------ on_bar (v2)
\* First half: refresh, read the clock and the call time, consume a pending
\* result (lines 1414-1533)
OnBarBegin(sym, md, more, place_ok) ==
  /\ impl = "v2" /\ frame.pc = "idle"
  /\ Len(orders) < MaxOrders
  /\ LET st0 == state[sym]
         st1 == [st0 EXCEPT !.ai_interval_secs = adaptive_interval(md.d_trend),
                            !.enough_bars = @ \/ more]
         d == st1.pending_decision
         seq == st1.pending_seq
         consume == d.signal # "None" /\ seq > st1.last_executed_seq
         r == execute_decision(st1, d, md, now, place_ok)
     IN  /\ state' = [state EXCEPT ![sym] =
                        IF ~consume THEN st1
                        ELSE IF r.raised THEN [r.st EXCEPT !.pending_decision = r.dec]
                        ELSE [r.st EXCEPT !.pending_decision = r.dec,
                                          !.last_executed_seq = seq]]
         /\ orders' = IF consume
                      THEN orders \o [i \in 1..Len(r.out) |->
                             [sym |-> sym, type |-> r.out[i].type, px |-> r.out[i].px,
                              vol |-> r.out[i].vol, acked |-> FALSE, t_ack |-> 0]]
                      ELSE orders
         /\ call' = IF consume
                    THEN [on |-> TRUE, sym |-> sym, d |-> d, md |-> md,
                          last_price |-> md.close, pre |-> st1, out |-> r.out,
                          ta |-> trading_allowed, raised |-> r.raised, t |-> now,
                          place_ok |-> place_ok]
                    ELSE NoCall
         /\ exec_count' = IF consume
                          THEN [exec_count EXCEPT ![sym][d.id] = Min(2, @ + 1)]
                          ELSE exec_count
         /\ frame' = [pc |-> "dispatch", sym |-> sym, md |-> md, now |-> now,
                      last_call |-> st0.last_ai_call_time,
                      in_cd |-> st0.cooldown_until # 0 /\ now < st0.cooldown_until]
  /\ UNCHANGED <<impl, nkeys, inflight, ptr, trading_allowed, jobs, now, venue_pos,
                 venue_book>>

\* Second half: start a new AI job when due, then the risk heartbeat
\* (lines 1534-1642)
OnBarEnd(start_ok) ==
  /\ impl = "v2" /\ frame.pc = "dispatch"
  /\ LET sym == frame.sym
         st == state[sym]
         due == /\ st.enough_bars
                /\ (frame.now - frame.last_call) >= st.ai_interval_secs + st.stagger_offset
                /\ ~frame.in_cd /\ ~st.ai_in_flight /\ trading_allowed
         a == KeyPool_acquire(nkeys, inflight)
         seq == st.ai_job_seq + 1
         hb == risk_heartbeat(SymContext_state_get(st), frame.md.close, frame.now)
     IN  /\ due /\ a.idx # 0 => seq <= MaxSeq
         /\ IF due /\ a.idx # 0
            THEN /\ inflight' = a.inflight
                 /\ state' = [state EXCEPT ![sym].ai_job_seq = seq,
                                           ![sym].ai_in_flight = start_ok]
                 /\ jobs' = IF start_ok
                            THEN jobs \cup {[sym |-> sym, seq |-> seq, kidx |-> a.idx,
                                             pc |-> "call"]}
                            ELSE jobs
            ELSE UNCHANGED <<inflight, state, jobs>>
         \* the heartbeat worked on a throwaway dict and a proxy object: a flatten
         \* order is all that could leave it
         /\ orders' = IF hb.flatten
                      THEN Append(orders, [sym |-> sym, type |-> "flatten", px |-> 0,
                                           vol |-> 0, acked |-> FALSE, t_ack |-> 0])
                      ELSE orders
  /\ frame' = Idle
  /\ call' = NoCall
  /\ UNCHANGED <<impl, nkeys, ptr, trading_allowed, now, venue_pos, venue_book, exec_count>>

\* ------------------------------------------------- venue callbacks (v2)
RemoveAt(q, i) == [k \in 1..(Len(q) - 1) |-> IF k < i THEN q[k] ELSE q[k + 1]]

\* on_order (v2): an order update whose status starts with "ALL" and whose
\* offset is open moves the local position and overwrites the average price
on_order(st, is_buy, is_open, vol, px, status_all) ==
  IF status_all /\ is_open
  THEN [st EXCEPT !.local_pos = IF is_buy THEN @ + vol ELSE @ - vol,
                  !.avg_price = px]
  ELSE st

\* a fill callback that books the exit price of a full close without starting
\* the re-entry window
on_trade_untimed(st, is_buy, vol, px, t) ==
  LET lp == st.local_pos + (IF is_buy THEN vol ELSE -vol)
  IN  IF lp = 0 THEN [st EXCEPT !.local_pos = lp, !.last_exit_price = px]
      ELSE [st EXCEPT !.local_pos = lp]

\* on_trade (v2): every fill moves the local position; flat afterwards means an
\* exit was recorded
on_trade(st, is_buy, vol, px, t) ==
  LET lp == st.local_pos + (IF is_buy THEN vol ELSE -vol)
  IN  IF lp = 0
      THEN [st EXCEPT !.local_pos = lp, !.last_exit_price = px,
                      !.reentry_until = t + REENTRY_COOLDOWN_SECS]
      ELSE [st EXCEPT !.local_pos = lp]

\* the signed quantity the venue trades for a working order
FillQty(o) ==
  IF o.type = "buy" THEN o.vol
  ELSE IF o.type = "short" THEN -o.vol
  ELSE IF o.type = "sell" THEN -Min(o.vol, Max(0, venue_pos[o.sym]))
  ELSE IF o.type = "cover" THEN Min(o.vol, Max(0, -venue_pos[o.sym]))
  ELSE -venue_pos[o.sym]

\* the venue reports the order as fully traded
OnOrder(i, status_all) ==
  /\ impl = "v2" /\ frame.pc = "idle"
  /\ i \in 1..Len(orders) /\ ~orders[i].acked
  /\ LET o == orders[i]
     IN  /\ state' = [state EXCEPT ![o.sym] =
                        on_order(@, FillQty(o) > 0, o.type # "flatten", Abs(FillQty(o)),
                                 o.px, status_all)]
         /\ orders' = [orders EXCEPT ![i].acked = TRUE]
  /\ call' = NoCall
  /\ UNCHANGED <<impl, nkeys, inflight, ptr, trading_allowed, jobs, frame, now,
                 venue_pos, venue_book, exec_count>>

\* the venue fills the order and reports the trade: a limit order at its own
\* price, a flatten order at the market price px; a flatten order of a flat
\* account trades nothing
OnTrade(i, px) ==
  /\ impl = "v2" /\ frame.pc = "idle"
  /\ i \in 1..Len(orders)
  /\ LET o == orders[i]
         q == FillQty(o)
         fill_px == IF o.type = "flatten" THEN px ELSE o.px
     IN  /\ venue_pos' = [venue_pos EXCEPT ![o.sym] = @ + q]
         /\ venue_book' = [venue_book EXCEPT
                            ![o.sym] = book_fill(@, venue_pos[o.sym], q, fill_px)]
         /\ state' = IF q = 0 THEN state
                     ELSE [state EXCEPT ![o.sym] = on_trade(@, q > 0, Abs(q), fill_px, now)]
         /\ orders' = RemoveAt(orders, i)
  /\ call' = NoCall
  /\ UNCHANGED <<impl, nkeys, inflight, ptr, trading_allowed, jobs, frame, now,
                 exec_count>>

\* ------------------------------------------------- on_bar, on_tick (kimi)
\* the order records the venue keeps for what a handler sent
Sent(sym, out) ==
  [i \in 1..Len(out) |->
     [sym |-> sym, type |-> out[i].type, px |-> out[i].px, vol |-> out[i].vol,
      acked |-> FALSE, t_ack |-> 0]]

\* on_bar (kimi) for a bar whose indicators could be computed: refresh the
\* snapshot from the last tick, then _spawn_ai_job when a call is due
KimiOnBar(sym, ind, more, start_ok) ==
  /\ impl = "kimi"
  /\ LET st0 == state[sym]
         md == collect_market_data(st0.last_tick, ind)
         st1 == [st0 EXCEPT !.has_ind = TRUE, !.last_indicators = ind,
                            !.enough_bars = @ \/ more]
         st2 == [st1 EXCEPT !.md_ready = TRUE, !.last_market_data = md,
                            !.ai_interval_secs = derive_adaptive_defaults(md).ai_interval_secs]
         in_cd == st2.cooldown_until # 0 /\ now < st2.cooldown_until
         due == /\ st2.enough_bars
                /\ (now - st2.last_ai_call_time) >= st2.ai_interval_secs + st2.stagger_offset
                /\ ~st2.ai_in_flight /\ ~in_cd /\ trading_allowed
         a == APIKeyPool_acquire(nkeys, inflight, ptr)
         seq == st2.ai_job_seq + 1
     IN  /\ st0.has_tick /\ due => seq <= MaxSeq
         /\ IF ~st0.has_tick
            THEN /\ state' = [state EXCEPT ![sym] = st1]
                 /\ UNCHANGED <<inflight, ptr, jobs>>
            ELSE IF ~due
            THEN /\ state' = [state EXCEPT ![sym] = st2]
                 /\ UNCHANGED <<inflight, ptr, jobs>>
            ELSE /\ inflight' = a.inflight
                 /\ ptr' = a.ptr
                 /\ state' = [state EXCEPT ![sym] =
                                [st2 EXCEPT !.ai_job_seq = seq,
                                            !.ai_in_flight = start_ok,
                                            !.last_ai_call_time = IF start_ok THEN now ELSE @]]
                 /\ jobs' = IF start_ok
                            THEN jobs \cup {[sym |-> sym, seq |-> seq, kidx |-> a.idx,
                                             pc |-> "call"]}
                            ELSE jobs
  /\ call' = NoCall
  /\ UNCHANGED <<impl, nkeys, trading_allowed, frame, now, orders, venue_pos,
                 venue_book, exec_count>>

\* on_tick (kimi): store the tick, build the first snapshot, reset the trading
\* day, consume a pending result, run the risk controller.  The tick-triggered
\* dispatch is switched off (ENABLE_TICK_TRIGGERED_AI).
KimiOnTick(sym, tk, place_ok, flat_ok) ==
  /\ impl = "kimi"
  /\ LET st0 == state[sym]
         md0 == collect_market_data(tk, st0.last_indicators)
         st1 == IF ~st0.md_ready /\ st0.has_ind
                THEN [st0 EXCEPT !.has_tick = TRUE, !.last_tick = tk,
                                 !.md_ready = TRUE, !.last_market_data = md0,
                                 !.ai_interval_secs =
                                    derive_adaptive_defaults(md0).ai_interval_secs]
                ELSE [st0 EXCEPT !.has_tick = TRUE, !.last_tick = tk]
         new_day == st1.trading_day # TradingDayOf(now)
         st2 == [st1 EXCEPT !.trading_day = TradingDayOf(now)]
         ta1 == IF new_day THEN TRUE ELSE trading_allowed
         d == st2.pending_decision
         consume == d.signal # "None" /\ st2.pending_seq > st2.last_consumed_seq
         st3 == [st2 EXCEPT !.last_consumed_seq = st2.pending_seq]
         r == Kimi_execute_decision(st3, d, tk, now, place_ok)
         st4 == IF consume THEN [r.st EXCEPT !.pending_decision = NoDecision]
                ELSE [st2 EXCEPT !.pending_decision = NoDecision]
         ce == check_and_enforce(st4, tk, now, ta1, flat_ok)
         out == (IF consume THEN r.out ELSE <<>>)
                  \o (IF ce.flatten THEN <<Order("flatten", 0, 0)>> ELSE <<>>)
                  \o ce.sells
     IN  /\ Len(orders) + Len(out) <= MaxOrders
         /\ state' = [state EXCEPT ![sym] = ce.st]
         /\ trading_allowed' = ce.ta
         /\ orders' = orders \o Sent(sym, out)
         /\ call' = IF consume
                    THEN [on |-> TRUE, sym |-> sym, d |-> d, md |-> st3.last_market_data,
                          last_price |-> tk.last_price, pre |-> st3, out |-> r.out,
                          ta |-> ta1, raised |-> r.raised, t |-> now,
                          place_ok |-> place_ok]
                    ELSE NoCall
         /\ exec_count' = IF consume
                          THEN [exec_count EXCEPT ![sym][d.id] = Min(2, @ + 1)]
                          ELSE exec_count
  /\ UNCHANGED <<impl, nkeys, inflight, ptr, jobs, frame, now, venue_pos, venue_book>>

\* the venue reports the order as fully traded (on_order_status)
KimiOnOrderStatus(i) ==
  /\ impl = "kimi"
  /\ i \in 1..Len(orders) /\ ~orders[i].acked
  /\ LET o == orders[i]
     IN  /\ state' = [state EXCEPT ![o.sym] =
                        on_order_status(@, o.type \in {"buy", "short"}, now)]
         /\ orders' = [orders EXCEPT ![i].acked = TRUE, ![i].t_ack = now]
  /\ call' = NoCall
  /\ UNCHANGED <<impl, nkeys, inflight, ptr, trading_allowed, jobs, frame, now,
                 venue_pos, venue_book, exec_count>>

\* the venue fills the order and reports the trade (on_trade); an order it has
\* not yet reported as fully traded is reported so right after the trade
\* (on_order_status)
KimiOnTrade(i, px) ==
  /\ impl = "kimi"
  /\ i \in 1..Len(orders)
  /\ LET o == orders[i]
         q == FillQty(o)
         fill_px == IF o.type = "flatten" THEN px ELSE o.px
         is_open == o.type \in {"buy", "short"}
         traded == Kimi_on_trade(state[o.sym], q > 0, is_open, Abs(q), fill_px)
     IN  /\ venue_pos' = [venue_pos EXCEPT ![o.sym] = @ + q]
         /\ venue_book' = [venue_book EXCEPT
                            ![o.sym] = book_fill(@, venue_pos[o.sym], q, fill_px)]
         /\ state' = IF q = 0 THEN state
                     ELSE [state EXCEPT ![o.sym] =
                             IF o.acked THEN traded
                             ELSE on_order_status(traded, is_open, now)]
         /\ orders' = RemoveAt(orders, i)
  /\ call' = NoCall
  /\ UNCHANGED <<impl, nkeys, inflight, ptr, trading_allowed, jobs, frame, now,
                 exec_count>>

\* --------------------------------------------------------- input domains
PriceLevels == {5400, 5500}
\* the snapshots a bar can bring in the dispatch model
Bars ==
  {MarketData(c, c, c + sp, 0, "NORMAL", tr) :
     c \in PriceLevels, sp \in {TickSize}, tr \in {"UPTREND"}}

\* what the oracle answers in the dispatch model
OracleDecisions ==
  { Decision("buy", "num", 30, "num", 5300, "none", 0, "num", 80, 0, "best"),
    Decision("close", "num", 0, "none", 0, "none", 0, "num", 80, 0, "best"),
    Decision("buy", "num", 30, "num", 5300, "none", 0, "bad", 0, 0, "best") }

PoolBars == {MarketData(5500, 5500, 5505, 0, "NORMAL", "UPTREND")}

HoldDecisions ==
  { Decision("hold", "num", 0, "none", 0, "none", 0, "num", 80, 0, "best") }

\* ---------------------------------------------------------- specifications
\* Spec: one symbol trades; the oracle's answers open, close and fail
Init ==
  /\ impl = "v2"
  /\ InitCommon
  /\ state["lc"] = InitSymState(0)

Next ==
  \/ Advance
  \/ \E md \in Bars, place_ok \in BOOLEAN : OnBarBegin("au", md, TRUE, place_ok)
  \/ \E start_ok \in BOOLEAN : OnBarEnd(start_ok)
  \/ \E j \in jobs, d \in OracleDecisions : JobReturn(j, d)
  \/ \E j \in jobs : JobWriteSeq(j)
  \/ \E j \in jobs : JobFail(j)
  \/ \E j \in jobs : JobFinally(j)
  \/ \E j \in jobs : JobRelease(j)
  \/ \E i \in 1..MaxOrders, status_all \in BOOLEAN : OnOrder(i, status_all)
  \/ \E i \in 1..MaxOrders, px \in PriceLevels : OnTrade(i, px)

Spec == Init /\ [][Next]_vars

\* SpecPool: either implementation; every symbol asks for keys; the oracle only
\* ever answers "hold"
PoolTicks == {Tick(5500, 5500, 5505)}
PoolIndicators == {Indicators(0, "NORMAL", "UPTREND")}

InitPool ==
  /\ impl \in Impls
  /\ InitCommon

NextPool ==
  \/ \E sym \in Symbols, md \in PoolBars, more \in BOOLEAN : OnBarBegin(sym, md, more, TRUE)
  \/ \E start_ok \in BOOLEAN : OnBarEnd(start_ok)
  \/ \E sym \in Symbols, ind \in PoolIndicators, more, start_ok \in BOOLEAN :
        KimiOnBar(sym, ind, more, start_ok)
  \/ \E sym \in Symbols, tk \in PoolTicks : KimiOnTick(sym, tk, TRUE, TRUE)
  \/ \E j \in jobs, d \in HoldDecisions : JobReturn(j, d)
  \/ \E j \in jobs : JobWriteSeq(j)
  \/ \E j \in jobs : JobFail(j)
  \/ \E j \in jobs : JobFinally(j)
  \/ \E j \in jobs : JobRelease(j)

SpecPool == InitPool /\ [][NextPool]_vars

\* SpecKimi: the tick-driven implementation trades one symbol through the
\* force-close deadline
KimiTicks == {Tick(5500, 5500, 5505)}
KimiIndicators == {Indicators(0, "NORMAL", "UPTREND")}
KimiDecisions ==
  { Decision("buy", "num", 60, "num", 5300, "none", 0, "num", 80, 0, "best"),
    Decision("buy", "num", 60, "num", 5300, "none", 0, "num", 80, 3, "best"),
    Decision("close", "num", 0, "none", 0, "none", 0, "num", 80, 0, "best") }

InitKimi ==
  /\ impl = "kimi"
  /\ InitCommon
  /\ state["lc"] = InitSymStateKimi(0)

NextKimi ==
  \/ Advance
  \/ \E ind \in KimiIndicators, start_ok \in BOOLEAN : KimiOnBar("au", ind, TRUE, start_ok)
  \/ \E tk \in KimiTicks, place_ok, flat_ok \in BOOLEAN : KimiOnTick("au", tk, place_ok, flat_ok)
  \/ \E j \in jobs, d \in KimiDecisions : JobReturn(j, d)
  \/ \E j \in jobs : JobWriteSeq(j)
  \/ \E j \in jobs : JobFail(j)
  \/ \E j \in jobs : JobFinally(j)
  \/ \E j \in jobs : JobRelease(j)
  \/ \E i \in 1..MaxOrders : KimiOnOrderStatus(i)
  \/ \E i \in 1..MaxOrders, px \in PriceLevels : KimiOnTrade(i, px)

SpecKimi == InitKimi /\ [][NextKimi]_vars

\* SpecExec: the executor of either implementation is applied to decisions and
\* market snapshots drawn from the sets below, on accounts with and without
\* earlier losses, once per bar after the previous order was filled
ExecSizes == {0, 30, 60, 80}
ExecStops == {<<"num", 5300>>, <<"num", 5480>>, <<"num", 5700>>, <<"none", 0>>}
ExecDecisions ==
  { Decision(sig, "num", sz, sp[1], sp[2], "none", 0, "num", 80, 0, "best") :
      sig \in {"buy", "sell"}, sz \in ExecSizes, sp \in ExecStops }
  \cup { Decision("buy", "num", 30, "num", 5300, "none", 0, "num", 80, 0, "mid"),
         [Decision("buy", "num", 60, "num", 5300, "none", 0, "num", 80, 0, "best")
            EXCEPT !.id = 1],
         Decision("close", "num", 0, "none", 0, "none", 0, "num", 80, 0, "best") }
ExecBars ==
  { MarketData(5500, 5495, 5500, 0, "NORMAL", "UPTREND"),
    MarketData(5500, 5495, 5500, 400, "NORMAL", "UPTREND"),
    MarketData(5500, 5495, 5500, 0, "THIN", "SIDEWAYS") }
ExecTicks == {Tick(5500, 5495, 5500), Tick(5300, 5295, 5300)}
ExecIndicators == {Indicators(0, "NORMAL", "UPTREND"), Indicators(400, "NORMAL", "SIDEWAYS")}
\* realized losses carried by the account when the run starts
ExecLosses == {0, 113000}
KimiExecLosses == {0, 1900000}

InitExec ==
  /\ impl \in Impls
  /\ nkeys = 1
  /\ inflight = [i \in 1..nkeys |-> 0]
  /\ ptr = 0
  /\ \E loss \in (IF impl = "v2" THEN ExecLosses ELSE KimiExecLosses) :
       state = [s \in Symbols |->
                  IF impl = "v2"
                  THEN [InitSymState(0) EXCEPT !.realized_pnl = IF s = "au" THEN -loss ELSE 0]
                  ELSE [InitSymStateKimi(0) EXCEPT
                          !.realized_pnl = IF s = "au" THEN -loss ELSE 0]]
  /\ trading_allowed = TRUE
  /\ jobs = {}
  /\ frame = Idle
  /\ now = StartTime
  /\ orders = <<>>
  /\ venue_pos = [s \in Symbols |-> 0]
  /\ venue_book = [s \in Symbols |-> NoBook]
  /\ call = NoCall
  /\ exec_count = [s \in Symbols |-> [q \in 1..MaxSeq |-> 0]]

\* TradeExecutor.execute_decision (v2) applied to the symbol's state
Execute(sym, d, md, place_ok) ==
  /\ impl = "v2"
  /\ ~call.on
  /\ now < StartTime + MaxTime * BarSecs
  /\ now' = now + BarSecs
  /\ LET st == state[sym]
         r == execute_decision(st, d, md, now, place_ok)
     IN  /\ Len(orders) + Len(r.out) <= MaxOrders
         /\ state' = [state EXCEPT ![sym] = r.st]
         /\ orders' = orders \o Sent(sym, r.out)
         /\ call' = [on |-> TRUE, sym |-> sym, d |-> d, md |-> md,
                     last_price |-> md.close, pre |-> st, out |-> r.out,
                     ta |-> trading_allowed, raised |-> r.raised, t |-> now,
                          place_ok |-> place_ok]
  /\ UNCHANGED <<impl, nkeys, inflight, ptr, trading_allowed, jobs, frame,
                 venue_pos, venue_book, exec_count>>

\* TradeExecutor.execute_decision (kimi) applied to the symbol's state, whose
\* snapshot was built from the tick and the indicators
KimiExecute(sym, d, tk, ind, place_ok) ==
  /\ impl = "kimi"
  /\ ~call.on
  /\ now < StartTime + MaxTime * BarSecs
  /\ now' = now + BarSecs
  /\ LET st == [state[sym] EXCEPT !.has_tick = TRUE, !.last_tick = tk,
                                  !.has_ind = TRUE, !.last_indicators = ind,
                                  !.md_ready = TRUE,
                                  !.last_market_data = collect_market_data(tk, ind)]
         r == Kimi_execute_decision(st, d, tk, now, place_ok)
     IN  /\ Len(orders) + Len(r.out) <= MaxOrders
         /\ state' = [state EXCEPT ![sym] = r.st]
         /\ orders' = orders \o Sent(sym, r.out)
         /\ call' = [on |-> TRUE, sym |-> sym, d |-> d, md |-> st.last_market_data,
                     last_price |-> tk.last_price, pre |-> st, out |-> r.out,
                     ta |-> trading_allowed, raised |-> r.raised, t |-> now,
                          place_ok |-> place_ok]
  /\ UNCHANGED <<impl, nkeys, inflight, ptr, trading_allowed, jobs, frame,
                 venue_pos, venue_book, exec_count>>

NextExec ==
  \/ \E d \in ExecDecisions, md \in ExecBars, place_ok \in BOOLEAN :
        Execute("au", d, md, place_ok)
  \/ \E d \in ExecDecisions, tk \in ExecTicks, ind \in ExecIndicators, place_ok \in BOOLEAN :
        KimiExecute("au", d, tk, ind, place_ok)
  \/ \E i \in 1..MaxOrders, px \in PriceLevels : OnTrade(i, px)
  \/ \E i \in 1..MaxOrders, px \in PriceLevels : KimiOnTrade(i, px)

SpecExec == InitExec /\ [][NextExec]_vars

\* ------------------------------------------------------- the risk passes
\* SpecRisk: positions are opened, added to and closed by the executor of either
\* implementation, the venue fills the orders, and the per-update risk pass runs
\* on bars (v2) and ticks (kimi) up to and past the 14:55 deadline
RiskDecisions ==
  { Decision("buy", "num", 30, "num", 5380, "none", 0, "num", 80, 0, "best"),
    Decision("sell", "num", 30, "num", 5450, "none", 0, "num", 80, 0, "best"),
    Decision("close", "num", 0, "none", 0, "none", 0, "num", 80, 0, "best") }
RiskBars ==
  { MarketData(c, c - TickSize, c, 0, "NORMAL", "UPTREND") : c \in {5400, 5500} }
RiskTicks == { Tick(c, c - TickSize, c) : c \in {5400, 5500} }
RiskIndicators == {Indicators(0, "NORMAL", "UPTREND")}
RiskFillPrices == {5400, 5500}

InitRisk ==
  /\ impl \in Impls
  /\ nkeys = 1
  /\ inflight = [i \in 1..nkeys |-> 0]
  /\ ptr = 0
  /\ state = [s \in Symbols |->
                IF impl = "v2" THEN InitSymState(0) ELSE InitSymStateKimi(0)]
  /\ trading_allowed = TRUE
  /\ jobs = {}
  /\ frame = Idle
  /\ now = StartTime
  /\ orders = <<>>
  /\ venue_pos = [s \in Symbols |-> 0]
  /\ venue_book = [s \in Symbols |-> NoBook]
  /\ call = NoCall
  /\ exec_count = [s \in Symbols |-> [q \in 1..MaxSeq |-> 0]]

\* on_bar's risk heartbeat (v2, line 1640): _risk_heartbeat is handed the
\* per-symbol proxy; what it does to the dict it looked up and to the proxy's
\* trading_allowed attribute is lost with them, a flatten order is not
RiskHeartbeat(sym, md) ==
  /\ impl = "v2"
  /\ ~call.on
  /\ LET st == state[sym]
         hb == risk_heartbeat(SymContext_state_get(st), md.close, now)
         out == IF hb.flatten THEN <<Order("flatten", 0, 0)>> ELSE <<>>
     IN  /\ Len(orders) + Len(out) <= MaxOrders
         /\ orders' = orders \o Sent(sym, out)
         /\ call' = [on |-> TRUE, sym |-> sym, d |-> NoDecision, md |-> md,
                     last_price |-> md.close, pre |-> st, out |-> out,
                     ta |-> trading_allowed, raised |-> FALSE, t |-> now,
                     place_ok |-> TRUE]
  /\ UNCHANGED <<impl, nkeys, inflight, ptr, state, trading_allowed, jobs, frame, now,
                 venue_pos, venue_book, exec_count>>

\* on_tick's risk pass (kimi, line 3018): RiskController.check_and_enforce on
\* the symbol's state after the tick was stored; it is the last statement of
\* on_tick and stands in no try, so what it raises leaves the handler
KimiRiskPass(sym, tk, flat_ok) ==
  /\ impl = "kimi"
  /\ ~call.on
  /\ LET st == [state[sym] EXCEPT !.has_tick = TRUE, !.last_tick = tk]
         ce == check_and_enforce(st, tk, now, trading_allowed, flat_ok)
         out == (IF ce.flatten THEN <<Order("flatten", 0, 0)>> ELSE <<>>) \o ce.sells
     IN  /\ Len(orders) + Len(out) <= MaxOrders
         /\ state' = [state EXCEPT ![sym] = ce.st]
         /\ trading_allowed' = ce.ta
         /\ orders' = orders \o Sent(sym, out)
         /\ call' = [on |-> TRUE, sym |-> sym, d |-> NoDecision,
                     md |-> st.last_market_data,
                     last_price |-> tk.last_price, pre |-> st, out |-> out,
                     ta |-> trading_allowed, raised |-> ce.raised, t |-> now,
                     place_ok |-> flat_ok]
  /\ UNCHANGED <<impl, nkeys, inflight, ptr, jobs, frame, now, venue_pos, venue_book,
                 exec_count>>

NextRisk ==
  \/ \E d \in RiskDecisions, md \in RiskBars : Execute("au", d, md, TRUE)
  \/ \E d \in RiskDecisions, tk \in RiskTicks, ind \in RiskIndicators :
        KimiExecute("au", d, tk, ind, TRUE)
  \/ \E md \in RiskBars : RiskHeartbeat("au", md)
  \/ \E tk \in RiskTicks, flat_ok \in BOOLEAN : KimiRiskPass("au", tk, flat_ok)
  \/ \E i \in 1..MaxOrders, px \in RiskFillPrices : OnTrade(i, px)
  \/ \E i \in 1..MaxOrders, px \in RiskFillPrices : KimiOnTrade(i, px)
  \/ \E i \in 1..MaxOrders : KimiOnOrderStatus(i)
  \/ Advance

SpecRisk == InitRisk /\ [][NextRisk]_vars

\* ------------------------------------------------------- same-side adds
\* SpecAdd: the executor of either implementation where the account funds
\* several lots (v2: a contract at 170.0 and 180.0; kimi: 550.0 and 560.0), so
\* that decisions of growing and shrinking size meet a position already held
AddDecisions ==
  { Decision(sig, "num", sz, "num", IF sig = "buy" THEN 1600 ELSE 5900,
             "none", 0, "num", 80, 0, "best") :
      sig \in {"buy", "sell"}, sz \in {30, 60} }
AddPrices == {1700, 1800}
AddTickPrices == {5500, 5600}
AddBars == { MarketData(c, c - TickSize, c, 0, "NORMAL", "UPTREND") : c \in AddPrices }
AddTicks == { Tick(c, c - TickSize, c) : c \in AddTickPrices }
AddIndicators == {Indicators(0, "NORMAL", "UPTREND"), Indicators(0, "NORMAL", "DOWNTREND")}

NextAdd ==
  \/ \E d \in AddDecisions, md \in AddBars : Execute("au", d, md, TRUE)
  \/ \E d \in AddDecisions, tk \in AddTicks, ind \in AddIndicators :
        KimiExecute("au", d, tk, ind, TRUE)
  \/ \E i \in 1..MaxOrders, px \in AddPrices : OnTrade(i, px)
  \/ \E i \in 1..MaxOrders, px \in AddTickPrices : KimiOnTrade(i, px)
  \/ Advance

SpecAdd == InitRisk /\ [][NextAdd]_vars

\* ------------------------------------------------------- scale-out plans
\* SpecScale: the kimi executor opens, adds to and closes a long position whose
\* decisions carry a scale-out plan (targets at one and two R above the entry),
\* the venue fills and reports the orders, and the risk pass runs on ticks at
\* the two targets
ScaleDecisions ==
  { [Decision("buy", "num", sz, "num", 5400, "none", 0, "num", 80, 0, "best")
       EXCEPT !.scale_out_levels_r = <<1, 2>>, !.scale_out_pcts = <<50, 50>>] :
      sz \in {30, 60} }
    \cup { Decision("close", "num", 0, "none", 0, "none", 0, "num", 80, 0, "best") }
ScaleEntryTicks == {Tick(5500, 5500 - TickSize, 5500)}
ScaleTickPrices == {5600, 5700}
ScaleTicks == { Tick(c, c - TickSize, c) : c \in ScaleTickPrices }
ScaleFillPrices == {5600}

InitScale == InitRisk /\ impl = "kimi"

NextScale ==
  \/ \E d \in ScaleDecisions, tk \in ScaleEntryTicks, ind \in RiskIndicators :
        KimiExecute("au", d, tk, ind, TRUE)
  \/ \E tk \in ScaleTicks, flat_ok \in BOOLEAN : KimiRiskPass("au", tk, flat_ok)
  \/ \E i \in 1..MaxOrders, px \in ScaleFillPrices : KimiOnTrade(i, px)
  \/ \E i \in 1..MaxOrders : KimiOnOrderStatus(i)
  \/ Advance

SpecScale == InitScale /\ [][NextScale]_vars

\* ------------------------------------------------------- re-entry windows
\* SpecReentry: the executor of either implementation opens with the trend,
\* closes, and is then offered new entries with and against the trend while the
\* re-entry window of the exit is still running
ReentryDecisions ==
  { Decision("buy", "num", 30, "num", 5380, "none", 0, "num", 80, 0, "best"),
    [Decision("sell", "num", 30, "num", 5620, "none", 0, "num", 80, 0, "best")
       EXCEPT !.rrr = 30],
    Decision("adjust_stop", "num", 0, "num", 5450, "none", 0, "num", 80, 0, "best"),
    Decision("close", "num", 0, "none", 0, "none", 0, "num", 80, 0, "best") }
ReentryBars == {MarketData(5500, 5500 - TickSize, 5500, 0, "NORMAL", "UPTREND")}
ReentryTicks == {Tick(5500, 5500 - TickSize, 5500)}

NextReentry ==
  \/ \E d \in ReentryDecisions, md \in ReentryBars : Execute("au", d, md, TRUE)
  \/ \E d \in ReentryDecisions, tk \in ReentryTicks, ind \in RiskIndicators :
        KimiExecute("au", d, tk, ind, TRUE)
  \/ \E i \in 1..MaxOrders, px \in RiskFillPrices : OnTrade(i, px)
  \/ \E i \in 1..MaxOrders, px \in RiskFillPrices : KimiOnTrade(i, px)
  \/ \E i \in 1..MaxOrders : KimiOnOrderStatus(i)
  \/ Advance

SpecReentry == InitRisk /\ [][NextReentry]_vars

\* ------------------------------------------------------- two symbols
\* SpecIso: both symbols have their history and are due for an oracle call; the
\* executor, the risk pass and the venue callbacks run for either of them
InitIso ==
  /\ impl \in Impls
  /\ nkeys = 1
  /\ inflight = [i \in 1..nkeys |-> 0]
  /\ ptr = 0
  /\ state = [s \in Symbols |->
                [(IF impl = "v2" THEN InitSymState(0) ELSE InitSymStateKimi(0))
                   EXCEPT !.enough_bars = TRUE]]
  /\ trading_allowed = TRUE
  /\ jobs = {}
  /\ frame = Idle
  /\ now = StartTime
  /\ orders = <<>>
  /\ venue_pos = [s \in Symbols |-> 0]
  /\ venue_book = [s \in Symbols |-> NoBook]
  /\ call = NoCall
  /\ exec_count = [s \in Symbols |-> [q \in 1..MaxSeq |-> 0]]

NextIso ==
  \/ \E s \in Symbols, d \in RiskDecisions, md \in RiskBars : Execute(s, d, md, TRUE)
  \/ \E s \in Symbols, d \in RiskDecisions, tk \in RiskTicks, ind \in RiskIndicators :
        KimiExecute(s, d, tk, ind, TRUE)
  \/ \E s \in Symbols, md \in RiskBars : RiskHeartbeat(s, md)
  \/ \E s \in Symbols, tk \in RiskTicks, flat_ok \in BOOLEAN : KimiRiskPass(s, tk, flat_ok)
  \/ \E i \in 1..MaxOrders, px \in RiskFillPrices : OnTrade(i, px)
  \/ \E i \in 1..MaxOrders, px \in RiskFillPrices : KimiOnTrade(i, px)
  \/ \E i \in 1..MaxOrders : KimiOnOrderStatus(i)
  \/ Advance

SpecIso == InitIso /\ [][NextIso]_vars

\* the last step was a risk pass (it carries no decision)
RiskPassed == call.on /\ call.d = NoDecision
\* the last step was an executor call
Executed == call.on /\ call.d # NoDecision

\* ------------------------------------------------------------------ claims
\* C1: each oracle result (identified by its job sequence number) is passed to
\* the executor at most once, and only when its sequence number is greater than
\* the last-executed sequence of the symbol.
C1_AtMostOnce ==
  /\ \A s \in Symbols : \A q \in 1..MaxSeq : exec_count[s][q] <= 1
  /\ call.on => call.d.id > call.pre.last_executed_seq

\* C2: every credential's in-flight counter is 0 or 1 after any sequence of
\* acquire and release calls by the dispatchers: a busy credential is never
\* handed out.
C2_OnePerKey == \A i \in 1..nkeys : inflight[i] \in {0, 1}

\* C3: every lease is released whatever the outcome of the call: once no oracle
\* call is running and no handler is under way, every in-flight counter is 0.
C3_NoStrandedLease ==
  (jobs = {} /\ frame.pc = "idle") => \A i \in 1..nkeys : inflight[i] = 0

\* C4: an oracle result that is consumed after a risk trip has disabled trading
\* is discarded: the executor is never called while trading is disabled.
C4_DisabledDiscards == call.on => call.ta

\* C5: once no order is working and no bar is being handled, the lots tracked
\* for a symbol equal the signed sum of the fills the venue reported for it
C5_LotsMatchFills ==
  (orders = <<>> /\ frame.pc = "idle") =>
      \A s \in Symbols : state[s].local_pos = venue_pos[s]

\* ---- what the claims below read off the executor call of the last step
\* the call sent a buy or a short order (a new position or a same-side add)
CallAdds == call.on /\ call.out # <<>> /\ call.out[1].type \in {"buy", "short"}
\* the call sent an opening order: a buy or a short while flat
CallOpens == CallAdds /\ call.pre.local_pos = 0
\* the account estimate the call took
CallAccount ==
  IF impl = "v2" THEN estimate_account(call.pre, call.last_price)
  ELSE Kimi_estimate_account(call.pre, call.last_price)
\* price * multiplier * marginRatio * buffer of the order, in yuan times 100
CallLotCost ==
  call.out[1].px * (mult \div 100) * long_mr
    * (IF impl = "v2" THEN NEW_TRADE_MARGIN_BUFFER ELSE Kimi_NEW_TRADE_MARGIN_BUFFER)
CallMaxPct == IF impl = "v2" THEN MAX_POSITION_PCT ELSE Kimi_MAX_POSITION_PCT
\* the lots of the opening order the same call sends for another requested
\* size, -1 when it sends none
LotsForSize(sz) ==
  LET d == [call.d EXCEPT !.size = sz]
      r == IF impl = "v2"
           THEN execute_decision(call.pre, d, call.md, call.t, call.place_ok)
           ELSE Kimi_execute_decision(call.pre, d, call.pre.last_tick, call.t, call.place_ok)
  IN  IF r.out # <<>> /\ r.out[1].type \in {"buy", "short"} THEN r.out[1].vol ELSE -1

\* C6: no opening order (a buy or a sell while flat) is sent for a decision
\* whose stop is missing or not a number, or on the wrong side of the current
\* price, or whose size is zero or above the maximum position fraction
C6_GateBeforeOpen ==
  CallOpens =>
    /\ call.d.stop_kind = "num"
    /\ call.out[1].type = "buy" => call.d.stop < call.last_price
    /\ call.out[1].type = "short" => call.d.stop > call.last_price
    /\ call.d.size_kind = "num"
    /\ call.d.size > 0
    /\ call.d.size <= CallMaxPct

\* C7: after an accepted buy (sell) the stored stop is strictly below (above)
\* the order price and at least max(MIN_STOP_TICKS * tick,
\* MIN_STOP_ATR_MULT * ATR) away from it
C7_StoredStopDistance ==
  CallAdds =>
    LET stp == state[call.sym].ai_decision
        px == call.out[1].px
        ticks == IF impl = "v2" THEN MIN_STOP_TICKS ELSE Kimi_MIN_STOP_TICKS
        pct == IF impl = "v2" THEN MIN_STOP_ATR_MULT_PCT ELSE Kimi_MIN_STOP_ATR_MULT_PCT
        dist == IF call.out[1].type = "buy" THEN px - stp.stop_loss ELSE stp.stop_loss - px
    IN  /\ stp.set
        /\ dist > 0
        /\ dist >= ticks * TickSize
        /\ 100 * dist >= pct * call.md.atr

\* C7 on the paths that run the stop guard: every buy or sell of v2, and the
\* opening orders of kimi
C7_GuardedPaths ==
  (CallAdds /\ (impl = "v2" \/ call.pre.local_pos = 0)) =>
    LET stp == state[call.sym].ai_decision
        px == call.out[1].px
        ticks == IF impl = "v2" THEN MIN_STOP_TICKS ELSE Kimi_MIN_STOP_TICKS
        pct == IF impl = "v2" THEN MIN_STOP_ATR_MULT_PCT ELSE Kimi_MIN_STOP_ATR_MULT_PCT
        dist == IF call.out[1].type = "buy" THEN px - stp.stop_loss ELSE stp.stop_loss - px
    IN  stp.set /\ dist > 0 /\ dist >= ticks * TickSize /\ 100 * dist >= pct * call.md.atr

C9_Scenario ==
  /\ impl = "v2" /\ call.on /\ call.place_ok
  /\ call.pre.local_pos = 0
  /\ call.t >= call.pre.reentry_until
  /\ CallAccount.equity = 200000 /\ CallAccount.available = 200000
  /\ call.d.signal = "buy" /\ call.d.size_kind = "num" /\ call.d.size = 30
  /\ call.d.stop_kind = "num" /\ call.d.stop < call.last_price
  /\ call.d.conf_kind = "num"
  /\ order_price_of(call.md, call.d.style, "buy") = 5500
  /\ mult = 100 /\ long_mr = 14 /\ NEW_TRADE_MARGIN_BUFFER = 112

HardStopHit ==
  /\ RiskPassed /\ call.place_ok
  /\ ~deadline_reached(ClockOf(call.t))
  /\ call.pre.ai_decision.set /\ call.pre.ai_decision.stop_loss # 0
  /\ \/ call.pre.local_pos > 0 /\ call.last_price <= call.pre.ai_decision.stop_loss
     \/ call.pre.local_pos < 0 /\ call.last_price >= call.pre.ai_decision.stop_loss
\* the reentry cooldown of the implementation that runs
ReentryCooldown ==
  IF impl = "v2" THEN REENTRY_COOLDOWN_SECS ELSE Kimi_REENTRY_COOLDOWN_SECS
Flattens(out) == \E i \in 1..Len(out) : out[i].type = "flatten"

\* C11: a risk heartbeat (v2) that finds the position at or beyond its stored hard stop,
\* before the force-close deadline, emits a flatten, resets the tracked position
\* to flat and sets reentry_until to now + the reentry cooldown
C11_HardStopFlattens ==
  impl = "v2" /\ HardStopHit =>
    /\ Flattens(call.out)
    /\ state[call.sym].local_pos = 0
    /\ state[call.sym].reentry_until = call.t + ReentryCooldown

\* C12: a close decision executed while the symbol is flat is a no-op: no order
\* or flatten is emitted, no error is raised, and position, exit price and the
\* reentry and cooldown timers are unchanged
C12_CloseWhenFlatNoOp ==
  Executed /\ Lower(call.d.signal) = "close" /\ call.pre.local_pos = 0 =>
    /\ call.out = <<>>
    /\ ~call.raised
    /\ state[call.sym].local_pos = 0
    /\ state[call.sym].last_exit_price = call.pre.last_exit_price
    /\ state[call.sym].reentry_until = call.pre.reentry_until
    /\ state[call.sym].cooldown_until = call.pre.cooldown_until

\* the sanity gate of the executor trips on the decision of the last call
GateTrips ==
  /\ Executed
  /\ IF impl = "v2"
     THEN is_ai_insane(size_fallback([call.d EXCEPT !.signal = normalize_signal(call.d.signal)],
                                     call.md), call.last_price)
     ELSE call.d.conf_kind # "bad" /\ Kimi_is_ai_insane(call.d, call.md).insane

\* C13: when the decision gate trips, the decision is discarded: no order or
\* flatten is emitted and position, stop, plan and cooldown state are unchanged
C13_GateDiscards ==
  GateTrips => call.out = <<>> /\ ~call.raised /\ state[call.sym] = call.pre
\* the gate trips while a position with a stored stop is held
C13_Witness ==
  GateTrips /\ call.pre.local_pos # 0 /\ call.pre.ai_decision.set /\ call.d.signal = "buy"

\* the decision of the last call passed the gates in front of the single-side
\* branch (sanity, confidence, low churn) and is a sell while long or a buy while short; the order could be sent
OppositeSignal ==
  /\ Executed /\ ~GateTrips /\ call.place_ok /\ ~call.raised
  /\ call.d.conf_kind = "num"
  /\ call.d.conf >= (IF impl = "v2" THEN MIN_AI_CONFIDENCE ELSE Kimi_MIN_AI_CONFIDENCE)
  /\ impl = "kimi" =>
       ~low_churn_gate(call.pre, Kimi_is_ai_insane(call.d, call.md).dec, call.md,
                       call.d.conf).drop
  /\ \/ normalize_signal(call.d.signal) = "sell" /\ call.pre.local_pos > 0
     \/ normalize_signal(call.d.signal) = "buy" /\ call.pre.local_pos < 0
PlanCleared(st) ==
  IF impl = "v2" THEN st.current_plan_id = 0 ELSE st.ai_decision = NoStop

SameSideSignal ==
  /\ Executed /\ ~GateTrips /\ call.place_ok /\ ~call.raised
  /\ call.d.conf_kind = "num"
  /\ call.d.conf >= (IF impl = "v2" THEN MIN_AI_CONFIDENCE ELSE Kimi_MIN_AI_CONFIDENCE)
  /\ impl = "kimi" =>
       ~low_churn_gate(call.pre, Kimi_is_ai_insane(call.d, call.md).dec, call.md,
                       call.d.conf).drop
  /\ \/ normalize_signal(call.d.signal) = "buy" /\ call.pre.local_pos > 0
     \/ normalize_signal(call.d.signal) = "sell" /\ call.pre.local_pos < 0
\* the total lot count the sizing of the last call arrives at: the count the
\* requested size asks for, capped by what the available funds pay for
CallTarget ==
  LET side == normalize_signal(call.d.signal)
      mr == IF side = "buy" THEN long_mr ELSE short_mr
      acc == CallAccount
  IN  IF impl = "v2"
      THEN LET d == size_fallback([call.d EXCEPT !.signal = side], call.md)
               px == order_price_of(call.md, d.style, side)
           IN  Min(max_lots_by_margin_of(acc.available, px, mr),
                   lots_target_of(acc.equity, size_pct_eff(d, call.md), px, mr))
      ELSE LET d == low_churn_gate(call.pre, Kimi_is_ai_insane(call.d, call.md).dec,
                                   call.md, call.d.conf).dec
               px == Kimi_order_price_of(call.md, call.pre.last_tick, d.style, side)
           IN  Min(Kimi_max_lots_by_margin_of(acc.available, Kimi_margin_per_lot_of(px, mr)),
                   lots_by_target_of(acc.equity, adjust_position_size(d.size, d, call.md), px))

\* C15: the order of a same-side add is for max(0, target - currentLots) lots,
\* target being the total lot count from sizing; it is never negative, and when
\* currentLots >= target no order is emitted and the state is unchanged
C15_AddToTarget ==
  SameSideSignal =>
    LET cur == Abs(call.pre.local_pos)
    IN  /\ \A i \in 1..Len(call.out) :
             /\ call.out[i].vol = Max(0, CallTarget - cur)
             /\ call.out[i].vol >= 0
        /\ cur >= CallTarget => call.out = <<>> /\ state[call.sym] = call.pre

\* the average entry price an implementation tracks
AvgOf(st) == IF impl = "v2" THEN st.avg_price ELSE st.position_avg_price
\* the step books a same-side add of order o onto the position st: v2 books an
\* order when the executor has sent it, kimi when on_trade reports its fill
IsAdd(st, o) ==
  /\ o.type \in {"buy", "short"} /\ o.vol > 0
  /\ (o.type = "buy" /\ st.local_pos > 0) \/ (o.type = "short" /\ st.local_pos < 0)
AddBooked(sym, o) ==
  /\ IsAdd(state[sym], o)
  /\ IF impl = "v2"
     THEN /\ ~call.on /\ call'.on /\ call'.sym = sym /\ call'.d # NoDecision
          /\ call'.out = <<o>>
     ELSE \E i \in 1..Len(orders) :
            /\ orders' = RemoveAt(orders, i) /\ venue_pos' # venue_pos
            /\ orders[i].sym = sym
            /\ o = [type |-> orders[i].type, px |-> orders[i].px, vol |-> orders[i].vol]
AddOrders ==
  { Order(t, px, v) : t \in {"buy", "short"}, px \in AddPrices \cup AddTickPrices, v \in 1..12 }

\* C16: after a same-side add of v lots at price p onto n lots held at average
\* a, the tracked average is (n * a + v * p) / (n + v) and the tracked lots are
\* n + v
C16_WeightedAverage ==
  [][ \A sym \in Symbols, o \in AddOrders :
        AddBooked(sym, o) =>
          LET n == Abs(state[sym].local_pos)
              a == AvgOf(state[sym])
          IN  /\ Abs(state'[sym].local_pos) = n + o.vol
              /\ AvgOf(state'[sym]) = (n * a + o.vol * o.px) \div (n + o.vol) ]_vars

\* C17: when a closing quantity fills, cumulative realized P&L changes by
\* (x - a) * q * multiplier for a long and (a - x) * q * multiplier for a short,
\* a being the average the position was held at and x the fill price, however
\* the close was initiated; the venue's books hold exactly that amount
C17_RealizedOnClose ==
  [][ \A sym \in Symbols :
        Abs(venue_pos'[sym]) < Abs(venue_pos[sym]) =>
          state'[sym].realized_pnl - state[sym].realized_pnl
            = venue_book'[sym].realized - venue_book[sym].realized ]_vars

\* what the checks of a risk pass find in the state the pass met
DeadlineHit == RiskPassed /\ deadline_reached(ClockOf(call.t))
StopHit ==
  /\ RiskPassed
  /\ call.pre.ai_decision.set /\ call.pre.ai_decision.stop_loss # 0
  /\ \/ call.pre.local_pos > 0 /\ call.last_price <= call.pre.ai_decision.stop_loss
     \/ call.pre.local_pos < 0 /\ call.last_price >= call.pre.ai_decision.stop_loss
\* realized plus floating loss has reached the daily ceiling
LossCeilingHit ==
  /\ RiskPassed
  /\ IF impl = "v2"
     THEN CallAccount.equity * 100 <= INITIAL_CASH * (100 - MAX_DAILY_LOSS_PCT)
     ELSE CallAccount.equity * 100 <= Kimi_INITIAL_CASH * (100 - Kimi_MAX_DAILY_LOSS_PCT)

\* C18: a risk pass evaluates force-close deadline, hard stop, (trailing stop,
\* time-in-trade,) daily-loss ceiling in this order; the first check that
\* matches takes its action (deadline and ceiling: flatten and stop trading;
\* hard stop: flatten) and no later check runs
C18_FirstMatchActs ==
  RiskPassed /\ call.place_ok =>
    LET held == call.pre.local_pos # 0
    IN  IF DeadlineHit THEN (held => Flattens(call.out)) /\ ~trading_allowed
        ELSE IF StopHit THEN Flattens(call.out) /\ trading_allowed = call.ta
        ELSE IF LossCeilingHit THEN (held => Flattens(call.out)) /\ ~trading_allowed
        ELSE call.out = <<>> /\ trading_allowed = call.ta

\* C19: when a fatal-risk condition trips in a risk pass (hard stop, daily-loss
\* ceiling or force-close deadline) the position is flattened and trading is
\* disabled, and while trading is disabled no decision opens or adds to a
\* position
C19_FatalStopsTrading ==
  /\ (RiskPassed /\ call.place_ok /\ call.pre.local_pos # 0
        /\ (DeadlineHit \/ StopHit \/ LossCeilingHit))
       => Flattens(call.out) /\ ~trading_allowed
  /\ (Executed /\ ~call.ta) => ~CallAdds

\* C20: a risk pass that finds the day's realized plus floating loss at the
\* configured ceiling (and no stop of the position hit) flattens the position if
\* one is open and disables trading, whether or not a position is open
C20_LossCeilingDisables ==
  (RiskPassed /\ call.place_ok /\ LossCeilingHit /\ ~StopHit) =>
      /\ call.pre.local_pos # 0 => Flattens(call.out)
      /\ ~trading_allowed

\* ---- scale-out plans
\* the symbol has a plan whose tranche quantities are fixed
PlanFixed(s) ==
  state[s].scale_out_plan.set /\ state[s].scale_out_plan.tranche_qtys # <<>>
\* every tranche of the symbol's plan has triggered and no tranche order is
\* still working
AllTranchesFilled(s) ==
  /\ PlanFixed(s)
  /\ \A i \in 1..Len(state[s].scale_out_plan.executed) :
        state[s].scale_out_plan.executed[i]
  /\ \A i \in 1..Len(orders) : orders[i].sym = s => orders[i].type \notin {"sell", "cover"}

\* C21: the tranche quantities of a scale-out plan sum to at most the lots the
\* position had when they were fixed, and once every tranche has triggered and
\* filled the position is flat
C21_ScaleOutConservation ==
  \A s \in Symbols :
    /\ PlanFixed(s) =>
         SeqSum(state[s].scale_out_plan.tranche_qtys) <= state[s].scale_out_plan.init_volume
    /\ AllTranchesFilled(s) => state[s].local_pos = 0 /\ venue_pos[s] = 0

\* C22: a symbol whose position is flat, with no order of it working, has no
\* scale-out plan: every path back to flat discards the plan
C22_FlatHasNoPlan ==
  \A s \in Symbols :
    (state[s].local_pos = 0 /\ venue_pos[s] = 0
        /\ \A i \in 1..Len(orders) : orders[i].sym # s)
      => ~state[s].scale_out_plan.set

\* ---- re-entry after an exit
\* the last step executed a buy or sell on a flat symbol inside its re-entry
\* window, or closer to the last exit (else entry) price than the configured gap
ReentryBlocked ==
  /\ Executed
  /\ call.d.signal \in {"buy", "sell"}
  /\ call.pre.local_pos = 0
  /\ LET gap == IF impl = "v2" THEN MIN_REENTRY_GAP_TICKS ELSE Kimi_MIN_REENTRY_GAP_TICKS
         ref_px == IF call.pre.last_exit_price # 0 THEN call.pre.last_exit_price
                   ELSE call.pre.last_entry_px
     IN  \/ call.t < call.pre.reentry_until
         \/ gap # 0 /\ ref_px # 0 /\ Abs(call.last_price - ref_px) < gap * TickSize

\* C23: a buy or sell executed on a flat symbol inside the re-entry window (or
\* inside the configured tick gap of the last exit or entry price) sends no
\* order and changes nothing in the symbol's state
C23_ReentryRejected ==
  ReentryBlocked => call.out = <<>> /\ state[call.sym] = call.pre

\* the step is the fill of an opening order of the symbol
OpeningFill(s) ==
  \E i \in 1..Len(orders) :
    orders[i].sym = s /\ orders[i].type \in {"buy", "short"} /\ orders' = RemoveAt(orders, i)

EntryDuringCooldown ==
  /\ Executed
  /\ call.pre.cooldown_until # 0 /\ call.t < call.pre.cooldown_until
  /\ \E i \in 1..Len(call.out) :
       call.out[i].type \in {"buy", "short"} /\ call.out[i].vol > 0

\* the venue reports the opening order i as fully traded in this step
OpenReported(i) ==
  /\ i \in 1..Len(orders) /\ ~orders[i].acked /\ orders[i].type \in {"buy", "short"}
  /\ \/ orders' = [orders EXCEPT ![i].acked = TRUE, ![i].t_ack = now]
     \/ /\ orders' = RemoveAt(orders, i)
        /\ state'[orders[i].sym].local_pos # state[orders[i].sym].local_pos

MayDispatch(s) ==
  /\ state[s].enough_bars
  /\ (now - state[s].last_ai_call_time) >= state[s].ai_interval_secs + state[s].stagger_offset
  /\ ~(state[s].cooldown_until # 0 /\ now < state[s].cooldown_until)
  /\ ~state[s].ai_in_flight
  /\ trading_allowed

\* the step is an executor call, a risk pass, a fill or a report for symbol s
StepFor(s) ==
  \/ call'.on /\ call'.sym = s
  \/ \E i \in 1..Len(orders) :
       /\ orders[i].sym = s
       /\ \/ orders' = RemoveAt(orders, i)
          \/ orders' = [orders EXCEPT ![i].acked = TRUE, ![i].t_ack = now]

\* C26: a step taken for one symbol (decision execution, risk pass, fill or
\* report) leaves every other symbol's state as it was and does not change
\* whether the other symbol may dispatch an oracle call
C26_SymbolsIndependent ==
  [][\A a, b \in Symbols :
       (a # b /\ StepFor(a) /\ ~StepFor(b)) =>
          /\ state'[b] = state[b]
          /\ MayDispatch(b)' = MayDispatch(b)]_vars

\* the step is a step of a background oracle task
JobStep == \E j \in jobs : j \notin jobs'

\* C27: a step of a background oracle task writes nothing of any symbol's state
\* but the pending-decision slot (pending_decision, pending_seq), the in-flight
\* flag and the call time: lots, average price, realized P&L, stop, scale-out
\* plan and the cooldown and re-entry timers stay as they were, no order is
\* sent and the trading permission is not touched
C27_TaskWritesSlotOnly ==
  [][JobStep =>
       /\ \A s \in Symbols :
            state'[s] = [state[s] EXCEPT
                           !.pending_decision = state'[s].pending_decision,
                           !.pending_seq = state'[s].pending_seq,
                           !.ai_in_flight = state'[s].ai_in_flight,
                           !.last_ai_call_time = state'[s].last_ai_call_time]
       /\ orders' = orders /\ trading_allowed' = trading_allowed
       /\ venue_pos' = venue_pos]_vars

\* a task has delivered a result that is not yet consumed while the symbol
\* holds a position
C27_Witness ==
  \E s \in Symbols :
    /\ state[s].local_pos # 0
    /\ state[s].pending_seq >
         (IF impl = "v2" THEN state[s].last_executed_seq ELSE state[s].last_consumed_seq)
    /\ state[s].pending_decision # NoDecision
    /\ state[s].pending_decision.id = state[s].pending_seq

\* C28: an adjust_stop decision executed while a position is held sends no
\* order, leaves the lot count and the average price as they were and rewrites
\* the stored stop to the decision's stop
C28_AdjustStopRewrites ==
  (Executed /\ call.d.signal = "adjust_stop" /\ call.pre.local_pos # 0) =>
     /\ call.out = <<>>
     /\ state[call.sym].local_pos = call.pre.local_pos
     /\ AvgOf(state[call.sym]) = AvgOf(call.pre)
     /\ state[call.sym].ai_decision.set
     /\ state[call.sym].ai_decision.stop_loss = call.d.stop

\* the executor call would have sent an order and the venue refused it
OrderFailed ==
  /\ Executed /\ ~call.place_ok
  /\ (IF impl = "v2"
      THEN execute_decision(call.pre, call.d, call.md, call.t, TRUE).out
      ELSE Kimi_execute_decision(call.pre, call.d, call.pre.last_tick, call.t, TRUE).out)
       # <<>>

\* C29: an executor call whose order could not be placed is all-or-nothing: no
\* order is recorded and the tracked lots, the average price, the stored stop,
\* the scale-out plan and the cooldown state (cooldown_until, reentry_until and,
\* in kimi, the cooldown duration staged for the next fill report) are exactly
\* as before the call
C29_AllOrNothing ==
  OrderFailed =>
    LET st == state[call.sym]
        pre == call.pre
    IN  /\ call.out = <<>>
        /\ st.local_pos = pre.local_pos
        /\ AvgOf(st) = AvgOf(pre)
        /\ st.ai_decision = pre.ai_decision
        /\ st.cooldown_until = pre.cooldown_until
        /\ st.reentry_until = pre.reentry_until
        /\ impl = "kimi" =>
              /\ st.scale_out_plan = pre.scale_out_plan
              /\ st.pending_cooldown_minutes = pre.pending_cooldown_minutes

\* C30: a failure raised inside the executor or the risk pass stays inside the
\* per-update handler and the failing cycle leaves the position state (lots,
\* average price, stored stop) as it was.  The handlers catch what the executor
\* raises (v2 on_bar, kimi on_tick); a risk pass that raised has left the handler
C30_FailuresContained ==
  (call.on /\ call.raised) =>
     /\ Executed
     /\ state[call.sym].local_pos = call.pre.local_pos
     /\ AvgOf(state[call.sym]) = AvgOf(call.pre)
     /\ state[call.sym].ai_decision = call.pre.ai_decision

\* the decision handed to the executor is a buy or sell whose fractional size
\* is not positive or lies above the rulebook maximum of the implementation
SizeOutOfRange ==
  /\ Executed
  /\ normalize_signal(call.d.signal) \in {"buy", "sell"}
  /\ call.d.size_kind = "num"
  /\ \/ call.d.size <= 0
     \/ call.d.size > (IF impl = "v2" THEN MAX_POSITION_PCT ELSE Kimi_MAX_POSITION_PCT)

SubstitutedSize ==
  IF impl = "v2" THEN Min(adaptive_size(call.md.d_trend), MAX_POSITION_PCT)
  ELSE IF call.d.size > Kimi_MAX_POSITION_PCT THEN Kimi_MAX_POSITION_PCT
  ELSE adaptive_of(call.pre).position_size_pct

CooldownDecisions ==
  { Decision("buy", "num", 30, "num", 5300, "none", 0, "num", 80, 3, "best"),
    Decision("close", "num", 0, "none", 0, "none", 0, "num", 80, 0, "best") }

NextCd ==
  \/ Advance
  \/ \E md \in Bars, place_ok \in BOOLEAN : OnBarBegin("au", md, TRUE, place_ok)
  \/ \E start_ok \in BOOLEAN : OnBarEnd(start_ok)
  \/ \E j \in jobs, d \in CooldownDecisions : JobReturn(j, d)
  \/ \E j \in jobs : JobWriteSeq(j)
  \/ \E j \in jobs : JobFail(j)
  \/ \E j \in jobs : JobFinally(j)
  \/ \E j \in jobs : JobRelease(j)

SpecCd == Init /\ [][NextCd]_vars

InCooldown(st, t) == st.cooldown_until # 0 /\ t < st.cooldown_until

\* the jobs a step launches
Launched == {j \in jobs' \ jobs : j.pc = "call"}

\* C32: an oracle call is launched for a symbol only when no call is outstanding
\* for it, the symbol is not in cooldown at that moment, trading is allowed and
\* the minimum history is there; so at most one call per symbol is in flight
C32_LaunchWhenClear ==
  [][/\ \A j \in Launched :
          /\ ~state[j.sym].ai_in_flight
          /\ ~\E k \in jobs : k.sym = j.sym /\ k.pc = "call"
          /\ ~InCooldown(state'[j.sym], now)
          /\ trading_allowed
          /\ state'[j.sym].enough_bars
     /\ \A s \in Symbols : Cardinality({k \in jobs' : k.sym = s /\ k.pc = "call"}) <= 1]_vars

\* the sequence number of the last result the consumer passed on
LastSeq(st) == IF impl = "v2" THEN st.last_executed_seq ELSE st.last_consumed_seq

\* C33: per symbol, every launched job gets a sequence number above all issued
\* before, the pending slot's sequence never decreases, and the last executed
\* sequence never decreases and never exceeds the highest sequence issued
C33_SequencesMonotone ==
  [][\A s \in Symbols :
       /\ \A j \in Launched : j.sym = s =>
             j.seq > state[s].ai_job_seq /\ j.seq = state'[s].ai_job_seq
       /\ state'[s].ai_job_seq >= state[s].ai_job_seq
       /\ state'[s].pending_seq >= state[s].pending_seq
       /\ LastSeq(state'[s]) >= LastSeq(state[s])
       /\ LastSeq(state'[s]) <= state'[s].ai_job_seq]_vars

\* the second job of a symbol was launched, wrote the slot and was consumed
C33_Witness ==
  \E s \in Symbols :
     state[s].ai_job_seq = 2 /\ state[s].pending_seq = 2 /\ LastSeq(state[s]) = 2

\* job j went from stage a to stage b in this step
Moved(j, a, b) == j \in jobs /\ j.pc = a /\ j \notin jobs' /\ [j EXCEPT !.pc = b] \in jobs'

\* C34: a failed oracle call leaves the symbol's pending decision and pending
\* sequence as they were, and its finally block clears the in-flight flag, so
\* the launch condition can hold again
C34_FailureLeavesSlot ==
  [][\A j \in jobs :
       /\ Moved(j, "call", "finally") =>
             /\ state'[j.sym].pending_decision = state[j.sym].pending_decision
             /\ state'[j.sym].pending_seq = state[j.sym].pending_seq
       /\ Moved(j, "finally", "release") => ~state'[j.sym].ai_in_flight]_vars

\* a call of a symbol failed (it is past its finally block and its sequence
\* never reached the slot) and the next call of the symbol has been launched
C34_Witness ==
  \E j, k \in jobs :
     /\ j.sym = k.sym
     /\ j.pc = "release" /\ state[j.sym].pending_seq < j.seq
     /\ state[j.sym].pending_decision = NoDecision
     /\ k.pc = "call" /\ k.seq = j.seq + 1

\* ---- scale-out tranches
\* the last step was a risk pass over a symbol that carries a scale-out plan
ScalePassed == RiskPassed /\ impl = "kimi" /\ call.pre.scale_out_plan.set

\* the partial-close orders that pass sent
TrancheOrders == SelectSeq(call.out, LAMBDA o : o.type \in {"sell", "cover"})

\* the plan the pass worked on, and the tranches it ticked off with an order
PassPlan == plan_with_base(call.pre.scale_out_plan, call.pre.local_pos)
Fired ==
  {i \in 1..Len(PassPlan.executed) :
      /\ i <= Len(PassPlan.tranche_qtys)
      /\ ~PassPlan.executed[i]
      /\ state[call.sym].scale_out_plan.executed[i]
      /\ PassPlan.tranche_qtys[i] > 0}

\* the lots of the plan's side that the position still holds
Remaining(pos) ==
  IF PassPlan.side = "long" THEN Max(0, pos) ELSE Max(0, -pos)

\* C35: a tranche sends at most one partial-close order over the life of its
\* plan, only once the price has reached its target, for no more lots than the
\* position still holds; the tranches of one update together order no more than
\* the position still holds
C35_TranchesWithinPosition ==
  ScalePassed =>
    /\ Len(TrancheOrders) = Cardinality(Fired)
    /\ \A i \in 1..Len(PassPlan.executed) :
          PassPlan.executed[i] => state[call.sym].scale_out_plan.executed[i]
    /\ \A i \in Fired :
          IF PassPlan.side = "long" THEN call.last_price >= PassPlan.targets[i]
          ELSE call.last_price <= PassPlan.targets[i]
    /\ \A k \in 1..Len(TrancheOrders) :
          /\ TrancheOrders[k].vol >= 1
          /\ TrancheOrders[k].vol <= Remaining(call.pre.local_pos)
          /\ TrancheOrders[k].vol <= Remaining(venue_pos[call.sym])
    /\ SeqSum([k \in 1..Len(TrancheOrders) |-> TrancheOrders[k].vol])
          <= Min(Remaining(call.pre.local_pos), Remaining(venue_pos[call.sym]))

\* two tranches triggered on the same update
C35_Witness == ScalePassed /\ Len(TrancheOrders) = 2

\* ---- the two writes of the background job against the consumer
\* the symbol's latest successful result is fully stored (both writes done) and
\* the consumer has not passed it on yet
Unconsumed(s) ==
  /\ state[s].pending_seq > state[s].last_consumed_seq
  /\ ~\E j \in jobs : j.sym = s /\ j.pc = "write_seq"

\* C36: in the tick-driven implementation every successful result whose
\* sequence exceeds last_consumed_seq is executed exactly once under every
\* interleaving of the job's two writes with on_tick: while it waits to be
\* consumed it is still in the slot, and no result is executed twice
C36_NoResultLost ==
  impl = "kimi" =>
    \A s \in Symbols :
       /\ Unconsumed(s) =>
             /\ state[s].pending_decision.signal # "None"
             /\ state[s].pending_decision.id = state[s].pending_seq
       /\ \A q \in 1..MaxSeq : exec_count[s][q] <= 1

\* ---- the credential of an oracle call
\* the key the engine puts in the request of job j: DeepSeekChiefEngine.call (v2)
\* takes no key and uses the first configured one; call_deepseek_api (kimi) is
\* handed the key the job leased
KeyUsed(j) == IF impl = "v2" THEN 1 ELSE j.kidx

\* C37: every oracle call in progress uses the key it leased from the pool, so
\* two calls in progress at the same time never use the same key
C37_CallUsesLeasedKey ==
  \A j \in jobs : j.pc = "call" =>
     /\ KeyUsed(j) = j.kidx
     /\ \A k \in jobs : (k.pc = "call" /\ k # j) => KeyUsed(k) # KeyUsed(j)

\* ---- closing fills
\* the step is the venue's report of lots traded by a flatten order of the symbol
ClosingFill(s) ==
  /\ venue_pos'[s] # venue_pos[s]
  /\ \E i \in 1..Len(orders) :
        orders[i].sym = s /\ orders[i].type = "flatten" /\ orders' = RemoveAt(orders, i)

\* C38: once a close decision or a risk flatten has set the tracked position to
\* 0, the report of the closing fill leaves it 0: the tracked position does not
\* turn into a position of the other side that no order opened
C38_ClosingFillKeepsFlat ==
  [][\A s \in Symbols :
       (state[s].local_pos = 0 /\ ClosingFill(s)) => state'[s].local_pos = 0]_vars

\* ---- the lot count of entry orders
\* C39: every buy or short order the executor sends, for a new position or a
\* same-side add, is for at least the minimum tradable lot; an add that comes
\* to no lots sends no order and leaves average price, stored stop, plan id and
\* cooldown as they were
C39_EntryLotsAtLeastMin ==
  Executed =>
    /\ \A k \in 1..Len(call.out) :
          call.out[k].type \in {"buy", "short"} => call.out[k].vol >= min_vol
    /\ (SameSideSignal /\ call.out = <<>>) =>
          /\ AvgOf(state[call.sym]) = AvgOf(call.pre)
          /\ state[call.sym].ai_decision = call.pre.ai_decision
          /\ state[call.sym].cooldown_until = call.pre.cooldown_until
          /\ impl = "v2" => state[call.sym].current_plan_id = call.pre.current_plan_id

\* ------------------------------------------------ the session's trading flag
\* SpecDay: the tick-driven implementation trades one symbol through the
\* force-close deadline while a second symbol of the same strategy receives
\* ticks of its own
NextDay ==
  \/ NextKimi
  \/ \E tk \in KimiTicks : KimiOnTick("lc", tk, TRUE, TRUE)

SpecDay == InitKimi /\ [][NextDay]_vars

\* C40: once a risk trip has disabled trading it stays disabled for the rest of
\* the trading day: no handler of any symbol sets it again before the next
\* session starts
C40_DisabledStaysDisabled ==
  [][(~trading_allowed /\ TradingDayOf(now') = TradingDayOf(now)) => ~trading_allowed']_vars
====
